---- MODULE Spec2Model ----
(***************************************************************************)
(* Model of the caption ingestion and synchronization engine of the       *)
(* dual-subtitle extension: src/modules/subtitle-parser.js (track parser, *)
(* validation pass, segment fetcher, cue matcher), src/modules/utils.js   *)
(* (time codec, throttle) and src/modules/subtitle-manager.js (the        *)
(* synchronization loop and its track store).                             *)
(*                                                                         *)
(* Times are integers in milliseconds.  A document is the sequence of its *)
(* lines (the result of split(/\r?\n/)); a line is a record               *)
(*   [k, s, e, t]   k = "ts"    a cue-header line, s --> e (two timestamps)*)
(*                              and t, what follows the second timestamp  *)
(*                  k = "txt"   any other non-blank line, text t           *)
(*                  k = "blank" a line that is empty after trim()          *)
(***************************************************************************)
EXTENDS Integers, Sequences, FiniteSets, TLC

VARIABLES
  \* ---- one fetch session observed in isolation (SpecFetch) ----
  fetchSession,     \* the locals of one fetchAllVTTs call
  fetchLog,         \* history: one entry per retrieval attempt of that call
  \* ---- SubtitleManager.state ----
  subtitle1Subtitles,
  subtitle2Subtitles,
  videoElement,
  isActive,
  lastSubtitle1Text,
  lastSubtitle2Text,
  currentTime,
  timeUpdateHandler,
  \* ---- environment of the manager ----
  calls,            \* the start() invocations made so far, with their fetch sessions
  handlers,         \* the closures created by Utils.throttle, by handler id
  listeners,        \* 'timeupdate' listeners attached to the video element
  domVideo,         \* the video element currently in the document (0: none)
  lastCall,         \* what the last step gave the renderer / the caller
  rendered,         \* the pair that SubtitleOverlay.updateOverlay was given last
  \* ---- the parser's functions applied to one input (SpecParse) ----
  parserInput,      \* a document, a list of segments or a cue query
  parserOutput,     \* what the function applied to it returned
  \* ---- one closure of Utils.throttle against the clock (SpecThrottle) ----
  throttled,        \* the clock and the closure's lastRan and lastFunc
  \* ---- the two fetch sessions of one start(), turn by turn (SpecPair) ----
  sessions,         \* the locals of fetchAllVTTs(subtitle1Url) and (subtitle2Url)
  \* ---- a fetch session with its URL template (SpecUrl) ----
  baseUrl,          \* the argument of fetchAllVTTs
  \* ---- SubtitleOverlay.state with the container's style (SpecOverlay) ----
  overlay,
  \* ---- the popup's setting buttons and chrome.storage.local (SpecPopup) ----
  popup

fetchVars == <<fetchSession, fetchLog, baseUrl>>
stateVars == <<subtitle1Subtitles, subtitle2Subtitles, videoElement, isActive,
               lastSubtitle1Text, lastSubtitle2Text, currentTime, timeUpdateHandler>>
envVars == <<calls, handlers, listeners, domVideo, lastCall, rendered>>
parserVars == <<parserInput, parserOutput>>
\* what the loop never touches: the variables of the specifications that
\* follow one function or one closure on its own
uiVars == <<overlay, popup>>
unitVars == <<parserInput, parserOutput, throttled, sessions, uiVars>>
vars == <<fetchSession, fetchLog, subtitle1Subtitles, subtitle2Subtitles,
          videoElement, isActive, lastSubtitle1Text, lastSubtitle2Text, currentTime,
          timeUpdateHandler, calls, handlers, listeners, domVideo, lastCall, rendered,
          parserInput, parserOutput, throttled, sessions, baseUrl, overlay, popup>>

(***************************************************************************)
(* Bounds of the model                                                     *)
(***************************************************************************)
\* highest segment index for which the remote side still serves content
MaxSegments == 2
\* closures made by Utils.throttle that are alive at the same time
MaxClosures == 2

(***************************************************************************)
(* Lines and documents                                                     *)
(***************************************************************************)
\* a timestamp token HH:MM:SS.mmm is the tuple <<HH, MM, SS, mmm>>
NoStamp == <<0, 0, 0, 0>>
TsLine(s, e) == [k |-> "ts", s |-> s, e |-> e, t |-> ""]
TextLine(t) == [k |-> "txt", s |-> NoStamp, e |-> NoStamp, t |-> t]
BlankLine == [k |-> "blank", s |-> NoStamp, e |-> NoStamp, t |-> ""]

\* the empty string '' splits into one empty line
EmptyText == <<BlankLine>>

\* content.trim() === ''
IsBlankText(content) == \A i \in 1..Len(content) : content[i].k = "blank"

\* a + b on strings, as sequences of lines: the last line of a and the first
\* line of b become one line.  Used only where that last line is empty.
StrConcat(a, b) == SubSeq(a, 1, Len(a) - 1) \o b

\* text + '\n'
WithNewline(text) == text \o <<BlankLine>>

isTimestampLine(line) == line.k = "ts"

(***************************************************************************)
(* Utils.timeToSeconds, in milliseconds                                    *)
(***************************************************************************)
timeToSeconds(hms) == hms[1] * 3600000 + hms[2] * 60000 + hms[3] * 1000 + hms[4]

(***************************************************************************)
(* SubtitleParser.parseVTT                                                 *)
(* A cue's text is the sequence of the lines joined into it; <<>> is ''.   *)
(***************************************************************************)
\* mutant: the text of a cue also ends at the next cue-header line
RECURSIVE TextBlockEndAtHeader(_, _)
TextBlockEndAtHeader(lines, i) ==
  IF i <= Len(lines) /\ lines[i].k = "txt"
  THEN TextBlockEndAtHeader(lines, i + 1) ELSE i

\* index of the first line at or after i that is blank, or Len(lines) + 1
RECURSIVE TextBlockEnd(_, _)
TextBlockEnd(lines, i) ==
  IF i <= Len(lines) /\ lines[i].k # "blank" THEN TextBlockEnd(lines, i + 1) ELSE i

RECURSIVE ParseFrom(_, _, _)
ParseFrom(lines, i, subtitles) ==
  IF i > Len(lines) THEN subtitles
  ELSE IF isTimestampLine(lines[i])
       THEN LET j == TextBlockEnd(lines, i + 1)
                subtitle == [startTime |-> timeToSeconds(lines[i].s),
                             endTime |-> timeToSeconds(lines[i].e),
                             text |-> SubSeq(lines, i + 1, j - 1),
                             originalStart |-> lines[i].s,
                             originalEnd |-> <<lines[i].e, lines[i].t>>]
            IN ParseFrom(lines, j,
                         IF subtitle.text # <<>> THEN Append(subtitles, subtitle)
                                                 ELSE subtitles)
       ELSE ParseFrom(lines, i + 1, subtitles)

parseVTT(vttText) == ParseFrom(vttText, 1, <<>>)

(***************************************************************************)
(* SubtitleParser.findSubtitleForTime: <<>> is null, <<cue>> a match       *)
(***************************************************************************)
\* mutant: the bounds of the interval are excluded
CueMatchesExclusive(subtitle, time, tolerance) ==
  /\ (subtitle.startTime - tolerance) < time
  /\ time < (subtitle.endTime + tolerance)

CueMatches(subtitle, time, tolerance) ==
  /\ (subtitle.startTime - tolerance) <= time
  /\ time <= (subtitle.endTime + tolerance)

findSubtitleForTime(subtitles, time, tolerance) ==
  LET hits == {i \in 1..Len(subtitles) : CueMatches(subtitles[i], time, tolerance)}
  IN IF hits = {} THEN <<>>
     ELSE <<subtitles[CHOOSE i \in hits : \A j \in hits : i <= j]>>

(***************************************************************************)
(* SubtitleParser.validateVTTContentDetailed                               *)
(* currentTextBlock is kept as "is it non-empty after trim()".             *)
(***************************************************************************)
RECURSIVE ValidateScan(_, _, _)
ValidateScan(lines, i, r) ==
  IF i > Len(lines) THEN r
  ELSE LET line == lines[i]
       IN ValidateScan(lines, i + 1,
            IF isTimestampLine(line)
            THEN [r EXCEPT !.hasTimestamps = TRUE,
                           !.timestampCount = @ + 1,
                           !.inTextBlock = FALSE]
            ELSE IF line.k # "blank" /\ r.inTextBlock
            THEN [r EXCEPT !.currentTextBlock = TRUE]
            ELSE IF line.k = "blank" /\ r.currentTextBlock
            THEN [r EXCEPT !.textCount = @ + 1,
                           !.currentTextBlock = FALSE,
                           !.inTextBlock = FALSE]
            ELSE IF line.k # "blank" /\ ~r.inTextBlock
            THEN [r EXCEPT !.inTextBlock = TRUE, !.currentTextBlock = TRUE]
            ELSE r)

\* mutant: a document without the format header is not valid
IsValidResultNeedsHeader(r) ==
  r.hasHeader /\ r.hasTimestamps /\ r.timestampCount > 0 /\ r.textCount > 0

\* "Determine validity"
IsValidResult(r) == r.hasTimestamps /\ r.timestampCount > 0 /\ r.textCount > 0

\* the messages pushed to result.errors after the scan
ValidationErrors(r) ==
  (IF ~r.hasTimestamps THEN {"No timestamp lines found"} ELSE {})
  \cup (IF r.timestampCount = 0 THEN {"No valid timestamps found"} ELSE {})
  \cup (IF r.textCount = 0 THEN {"No subtitle text found"} ELSE {})

\* the messages pushed to result.warnings (the counts in the second one are
\* left out of its text)
ValidationWarnings(r) ==
  (IF ~r.hasHeader THEN {"Missing WEBVTT header"} ELSE {})
  \cup (IF r.timestampCount # r.textCount
        THEN {"Timestamp count doesn't match text block count"} ELSE {})

validateVTTContentDetailed(content) ==
  LET r0 == [isValid |-> FALSE, hasHeader |-> FALSE, hasTimestamps |-> FALSE,
             timestampCount |-> 0, textCount |-> 0,
             inTextBlock |-> FALSE, currentTextBlock |-> FALSE,
             errors |-> {}, warnings |-> {}]
  IN IF IsBlankText(content) THEN [r0 EXCEPT !.errors = {"Content is empty"}]
     ELSE LET r1 == ValidateScan(content, 1,
                      [r0 EXCEPT !.hasHeader =
                          \E i \in 1..Len(content) : content[i].t = "WEBVTT"])
              r2 == IF r1.currentTextBlock
                    THEN [r1 EXCEPT !.textCount = @ + 1] ELSE r1
          IN [r2 EXCEPT !.isValid = IsValidResult(r2),
                        !.errors = ValidationErrors(r2),
                        !.warnings = ValidationWarnings(r2)]

(***************************************************************************)
(* SubtitleParser.validateSubtitles: an error is <<index, message>>, the   *)
(* index counted from 0 as forEach counts it                               *)
(***************************************************************************)
\* !value for a number: 0 is falsy (NaN is no time of the model)
Falsy(value) == value = 0

validateSubtitles(subtitles) ==
  LET errors ==
        {<<i - 1, "Invalid start time">> : i \in
           {i \in 1..Len(subtitles) :
              Falsy(subtitles[i].startTime) \/ subtitles[i].startTime < 0}}
        \cup {<<i - 1, "Invalid end time">> : i \in
           {i \in 1..Len(subtitles) :
              Falsy(subtitles[i].endTime) \/ subtitles[i].endTime < 0}}
        \cup {<<i - 1, "Start time must be before end time">> : i \in
           {i \in 1..Len(subtitles) :
              subtitles[i].startTime >= subtitles[i].endTime}}
        \cup {<<i - 1, "Empty text">> : i \in
           {i \in 1..Len(subtitles) :
              \A j \in 1..Len(subtitles[i].text) : subtitles[i].text[j].k = "blank"}}
  IN [isValid |-> errors = {}, errors |-> errors, count |-> Len(subtitles)]

(***************************************************************************)
(* The remote side: what one retrieval of segment `index` of a track can   *)
(* bring back.  status 0 is a fetch() that rejects (network error or the   *)
(* 15 s timeout); any other status is an HTTP response with that status.   *)
(***************************************************************************)
Stamp(sec, ms) == <<0, 0, sec, ms>>

\* the segments the remote side holds for a track
RemoteDoc(url, index) ==
  IF url = "A"
  THEN IF index = 1
       THEN <<TextLine("WEBVTT"), BlankLine,
              TsLine(Stamp(0, 0), Stamp(1, 0)), TextLine("Hi")>>
       ELSE <<TextLine("WEBVTT"), BlankLine,
              TsLine(Stamp(7 * (index - 1), 0), Stamp(7 * (index - 1) + 1, 0)),
              TextLine("Bye")>>
  ELSE <<TextLine("WEBVTT"), BlankLine,
         TsLine(Stamp(4 + 7 * (index - 1), 950), Stamp(6 + 7 * (index - 1), 0)),
         TextLine("Yo"), BlankLine>>

\* bodies that are served with status 200 but are no timed-text segment
InvalidDocs == {EmptyText, <<TextLine("<Error>"), TextLine("NoSuchKey")>>}

RawOk(body) == [status |-> 200, body |-> body, failure |-> ""]
RawHttp(status) == [status |-> status, body |-> EmptyText, failure |-> ""]
RawFailure(f) == [status |-> 0, body |-> EmptyText, failure |-> f]

RetryableRaw == {RawHttp(500), RawFailure("Failed to fetch")}

\* track "A" comes in up to MaxSegments segments, track "B" in one
SegmentsHeld(url) == IF url = "A" THEN MaxSegments ELSE 1

RemoteOutcomes(url, index) ==
  (IF index <= SegmentsHeld(url) THEN {RawOk(RemoteDoc(url, index))} ELSE {})
  \cup {RawOk(d) : d \in InvalidDocs}
  \cup {RawHttp(404)}
  \cup RetryableRaw

(***************************************************************************)
(* SubtitleParser.enhancedFetch: a response, or the message of the error   *)
(* it throws                                                               *)
(***************************************************************************)
enhancedFetch(raw) ==
  IF raw.status = 0
  THEN [ok |-> FALSE, text |-> EmptyText, message |-> raw.failure]
  ELSE IF raw.status < 200 \/ raw.status > 299
  THEN [ok |-> FALSE, text |-> EmptyText,
        message |-> IF raw.status = 404 THEN "HTTP 404: Not Found"
                    ELSE "HTTP 500: Internal Server Error"]
  ELSE [ok |-> TRUE, text |-> raw.body, message |-> ""]

\* mutant: no message is taken for 'not found'
IsNotFoundMessageNever(message) == FALSE

\* error.message.includes('404') || error.message.includes('NoSuchKey')
IsNotFoundMessage(message) == message = "HTTP 404: Not Found"

(***************************************************************************)
(* SubtitleParser.fetchAllVTTs                                             *)
(* pc: "request"  awaiting enhancedFetch(url of index)                     *)
(*     "delay"    awaiting the retry timer                                 *)
(*     "returned" returned allContent                                      *)
(*     "thrown"   threw 'No valid VTT content found'                       *)
(*     "none"     no session (no URL for the slot)                         *)
(***************************************************************************)
maxRetries == 3

BackoffBase == 1000

Pow2(n) == 2 ^ n

\* mutant: the delay does not grow
RetryDelayConstant(retryCount) == BackoffBase

RetryDelay(retryCount) == BackoffBase * Pow2(retryCount - 1)

NewSession ==
  [pc |-> "request", index |-> 1, retryCount |-> 0, allContent |-> EmptyText,
   delay |-> 0]

NoSession ==
  [pc |-> "none", index |-> 1, retryCount |-> 0, allContent |-> EmptyText,
   delay |-> 0]

\* mutant: the empty buffer is returned like any other
FetchResultNeverThrows(s) == [s EXCEPT !.pc = "returned"]

\* after the while loop
FetchResult(s) ==
  IF IsBlankText(s.allContent) THEN [s EXCEPT !.pc = "thrown"]
                               ELSE [s EXCEPT !.pc = "returned"]

\* mutant: the text is appended without the validation pass
OnSegmentTextUnchecked(s, text) ==
  [s EXCEPT !.allContent = StrConcat(@, WithNewline(text)),
            !.index = @ + 1,
            !.retryCount = 0]

\* mutant: a valid segment leaves the retry counter as it is
OnSegmentTextKeepsRetryCount(s, text) ==
  IF ~validateVTTContentDetailed(text).isValid
  THEN FetchResult(s)
  ELSE [s EXCEPT !.allContent = StrConcat(@, WithNewline(text)),
                 !.index = @ + 1]

\* the try branch once the response is there
OnSegmentText(s, text) ==
  IF ~validateVTTContentDetailed(text).isValid
  THEN FetchResult(s)
  ELSE [s EXCEPT !.allContent = StrConcat(@, WithNewline(text)),
                 !.index = @ + 1,
                 !.retryCount = 0]

\* mutant: a retry moves on to the next index
OnFetchErrorSkipsSegment(s, message) ==
  IF IsNotFoundMessage(message)
  THEN FetchResult(s)
  ELSE LET t == [s EXCEPT !.retryCount = @ + 1]
       IN IF t.retryCount >= maxRetries
          THEN FetchResult(t)
          ELSE [t EXCEPT !.pc = "delay", !.delay = RetryDelay(t.retryCount),
                         !.index = @ + 1]

\* the catch branch
OnFetchError(s, message) ==
  IF IsNotFoundMessage(message)
  THEN FetchResult(s)
  ELSE LET t == [s EXCEPT !.retryCount = @ + 1]
       IN IF t.retryCount >= maxRetries
          THEN FetchResult(t)
          ELSE [t EXCEPT !.pc = "delay", !.delay = RetryDelay(t.retryCount)]

\* one turn of the loop, from the arrival of the response to the next await
OnResponse(s, raw) ==
  LET r == enhancedFetch(raw)
  IN IF r.ok THEN OnSegmentText(s, r.text) ELSE OnFetchError(s, r.message)

\* the retry timer fires: the loop continues with the same index
OnDelayElapsed(s) == [s EXCEPT !.pc = "request", !.delay = 0]

(***************************************************************************)
(* SpecFetch: one fetchAllVTTs("A") call against every remote behaviour,   *)
(* with the history of its attempts                                        *)
(***************************************************************************)
FetchRespond ==
  /\ fetchSession.pc = "request"
  /\ \E raw \in RemoteOutcomes("A", fetchSession.index) :
       /\ fetchSession' = OnResponse(fetchSession, raw)
       /\ fetchLog' = Append(fetchLog,
                             [index |-> fetchSession.index, raw |-> raw, waited |-> 0])
  /\ UNCHANGED <<baseUrl, unitVars, stateVars, envVars>>

FetchDelayElapsed ==
  /\ fetchSession.pc = "delay"
  /\ fetchSession' = OnDelayElapsed(fetchSession)
  /\ fetchLog' = [fetchLog EXCEPT ![Len(fetchLog)].waited = fetchSession.delay]
  /\ UNCHANGED <<baseUrl, unitVars, stateVars, envVars>>

(***************************************************************************)
(* SpecUrl: one fetchAllVTTs(baseUrl) call with the URL of each request.   *)
(* A URL is [path, number, ext, query], as in path12.vtt?query; number is  *)
(* NoNumber when no digits stand before the extension.                     *)
(***************************************************************************)
MaxIndex == 5

NoNumber == 0

Url(path, number, ext, query) ==
  [path |-> path, number |-> number, ext |-> ext, query |-> query]

\* the templates a caller may pass
Templates ==
  {Url("seg", 1, ".vtt", ""), Url("seg", 1, ".vtt", "?token"),
   Url("movie", NoNumber, ".vtt", ""), Url("seg", 1, ".txt", "")}

\* /(\d+)\.vtt$/ matches the URL
EndsInDigitsVtt(url) == url.number # NoNumber /\ url.ext = ".vtt" /\ url.query = ""

\* baseUrl.replace(/(\d+)\.vtt$/, `${index}.vtt`)
SegmentUrl(url, index) ==
  IF EndsInDigitsVtt(url) THEN [url EXCEPT !.number = index] ELSE url

\* the valid segments the remote side holds: seg1.vtt .. seg<MaxSegments>.vtt
\* and seg1.txt, the segments of one track, and movie.vtt, a track in one
\* file; the query of a URL does not select the resource
HeldResources ==
  {<<"seg", n, ".vtt">> : n \in 1..MaxSegments}
    \cup {<<"seg", 1, ".txt">>, <<"movie", NoNumber, ".vtt">>}

Resource(url) == <<url.path, url.number, url.ext>>

ResourceDoc(url) ==
  IF url.number = NoNumber THEN RemoteDoc("B", 1) ELSE RemoteDoc("A", url.number)

\* what one retrieval of a URL can bring back
UrlOutcomes(url) ==
  (IF Resource(url) \in HeldResources THEN {RawOk(ResourceDoc(url))} ELSE {})
  \cup {RawOk(d) : d \in InvalidDocs}
  \cup {RawHttp(404)}
  \cup RetryableRaw

\* enhancedFetch(url) settles
UrlRespond ==
  /\ fetchSession.pc = "request"
  /\ fetchSession.index < MaxIndex
  /\ \E raw \in UrlOutcomes(SegmentUrl(baseUrl, fetchSession.index)) :
       fetchSession' = OnResponse(fetchSession, raw)
  /\ UNCHANGED <<fetchLog, baseUrl, unitVars, stateVars, envVars>>

UrlDelayElapsed ==
  /\ fetchSession.pc = "delay"
  /\ fetchSession' = OnDelayElapsed(fetchSession)
  /\ UNCHANGED <<fetchLog, baseUrl, unitVars, stateVars, envVars>>

(***************************************************************************)
(* SubtitleManager                                                         *)
(*   videoElement      0: null, PromiseObject: the Promise that            *)
(*                     Utils.safeQuerySelector returns when the selector   *)
(*                     matches nothing, n > 0: the video element n         *)
(*   timeUpdateHandler 0: null, h > 0: the h-th closure made by throttle   *)
(*   a text            the sequence of its lines, <<>> is ''               *)
(***************************************************************************)
TOLERANCE == 100

PromiseObject == -1

NaN == -1

\* playback positions the video element can report
Times == {0, 50, 5000}

Elements == {1}

\* lastCall: the entry point that ran last ("tick", "stop", "start" when a
\* start() returned, "pause", "resume", "cleanup", else "none") with what it
\* gave the renderer (emitted, pair), the status channel (status is
\* timestampStatus, subtitleStatus) and its caller (ok; for start() also
\* sess, how the sessions of the call stood); for a tick that got as far as
\* reading the playback time, whether the element reported NaN (unreadable)
NoCall ==
  [op |-> "none", processed |-> FALSE, emitted |-> FALSE,
   pair |-> <<<<>>, <<>>>>, status |-> "", ok |-> TRUE, sess |-> <<"none", "none">>,
   unreadable |-> FALSE, subtitleStatus |-> ""]

\* Utils.safeQuerySelector(VIDEO_SELECTOR): the element, or a Promise
safeQuerySelector(dom) == IF dom # 0 THEN dom ELSE PromiseObject

\* subtitleNMatch ? subtitleNMatch.text : ''
MatchText(match) == IF match = <<>> THEN <<>> ELSE match[1].text

\* mutant: every tick counts as a change
TextChangedAlways(text1, text2, last1, last2) == TRUE

\* the text has changed (handleVideoTimeUpdate, lines 317-318)
TextChanged(text1, text2, last1, last2) == text1 # last1 \/ text2 # last2

\* mutant: 'Success' only when both tracks have a match
TimestampStatusWhenBoth(match1, match2) ==
  IF match1 # <<>> /\ match2 # <<>> THEN "Success" ELSE "Timestamp not matched"

\* updateStatus
TimestampStatus(match1, match2) ==
  IF match1 # <<>> \/ match2 # <<>> THEN "Success" ELSE "Timestamp not matched"

\* mutant: the handler runs whatever the state of the loop
NotMonitoringNever == FALSE

\* !this.state.videoElement || !this.state.isActive
NotMonitoring == videoElement = 0 \/ ~isActive

\* mutant: every reading counts as a number
isNaNNever(value) == FALSE

isNaN(value) == value = NaN

(***************************************************************************)
(* handleVideoTimeUpdate, reading `time` from the video element            *)
(***************************************************************************)
handleVideoTimeUpdate(time) ==
  LET read == IF videoElement = PromiseObject THEN NaN ELSE time
  IN IF NotMonitoring
     THEN /\ lastCall' = [NoCall EXCEPT !.op = "tick"]
          /\ UNCHANGED <<currentTime, lastSubtitle1Text, lastSubtitle2Text, rendered>>
     ELSE IF isNaN(read)
     THEN /\ lastCall' = [NoCall EXCEPT !.op = "tick", !.unreadable = TRUE]
          /\ UNCHANGED <<currentTime, lastSubtitle1Text, lastSubtitle2Text, rendered>>
     ELSE LET subtitle1Match ==
                findSubtitleForTime(subtitle1Subtitles, read, TOLERANCE)
              subtitle2Match ==
                findSubtitleForTime(subtitle2Subtitles, read, TOLERANCE)
              subtitle1Text == MatchText(subtitle1Match)
              subtitle2Text == MatchText(subtitle2Match)
          IN /\ currentTime' = read
             /\ IF TextChanged(subtitle1Text, subtitle2Text,
                               lastSubtitle1Text, lastSubtitle2Text)
                THEN /\ lastSubtitle1Text' = subtitle1Text
                     /\ lastSubtitle2Text' = subtitle2Text
                     /\ rendered' = <<subtitle1Text, subtitle2Text>>
                     /\ lastCall' =
                          [NoCall EXCEPT !.op = "tick",
                             !.unreadable = (read = NaN),
                             !.processed = TRUE, !.emitted = TRUE,
                             !.pair = <<subtitle1Text, subtitle2Text>>,
                             !.status = TimestampStatus(subtitle1Match,
                                                        subtitle2Match)]
                ELSE /\ UNCHANGED <<lastSubtitle1Text, lastSubtitle2Text, rendered>>
                     /\ lastCall' = [NoCall EXCEPT !.op = "tick",
                                                   !.unreadable = (read = NaN),
                                                   !.processed = TRUE]

(***************************************************************************)
(* Utils.throttle(handleVideoTimeUpdate, TIME_UPDATE_INTERVAL)             *)
(* A closure is [ran, pending]: lastRan is set; the timer lastFunc is set  *)
(* and has not fired.                                                      *)
(***************************************************************************)
NewHandler == [live |-> TRUE, ran |-> FALSE, pending |-> FALSE]

\* a slot that holds no closure
NoHandler == [live |-> FALSE, ran |-> FALSE, pending |-> FALSE]

HandlerIds == 1..MaxClosures

\* the handlers attached to the element on which 'timeupdate' fires
Attached(el) == {h \in HandlerIds : <<el, h>> \in listeners}

\* garbage collection: a closure that is neither the stored handler, nor a
\* listener, nor waited for by a timer can never be called again
Collect(hs, stored, ls) ==
  [h \in HandlerIds |->
     IF h = stored \/ hs[h].pending \/ \E el \in Elements : <<el, h>> \in ls
     THEN hs[h] ELSE NoHandler]

\* the slot that the next closure takes
FreeHandler == CHOOSE h \in HandlerIds :
                 ~handlers[h].live /\ \A g \in HandlerIds : g < h => handlers[g].live

\* the video element fires 'timeupdate': every attached closure is called
TimeUpdate ==
  /\ domVideo # 0
  /\ Attached(domVideo) # {}
  /\ \E time \in Times \cup {NaN} :
       /\ handlers' = [h \in HandlerIds |->
                         IF h \in Attached(domVideo)
                         THEN IF handlers[h].ran
                              THEN [handlers[h] EXCEPT !.pending = TRUE]
                              ELSE [handlers[h] EXCEPT !.ran = TRUE]
                         ELSE handlers[h]]
       /\ IF \E h \in Attached(domVideo) : ~handlers[h].ran
          THEN handleVideoTimeUpdate(time)
          ELSE /\ lastCall' = NoCall
               /\ UNCHANGED <<currentTime, lastSubtitle1Text, lastSubtitle2Text, rendered>>
  /\ UNCHANGED <<unitVars, fetchVars, subtitle1Subtitles, subtitle2Subtitles, videoElement,
                 isActive, timeUpdateHandler, calls, listeners, domVideo>>

\* the timer of a closure fires: the trailing call
TimerFire ==
  \E h \in HandlerIds :
    /\ handlers[h].pending
    /\ handlers' = Collect([handlers EXCEPT ![h].pending = FALSE],
                           timeUpdateHandler, listeners)
    /\ \E time \in Times \cup {NaN} : handleVideoTimeUpdate(time)
    /\ UNCHANGED <<unitVars, fetchVars, subtitle1Subtitles, subtitle2Subtitles, videoElement,
                   isActive, timeUpdateHandler, calls, listeners, domVideo>>

(***************************************************************************)
(* SpecThrottle: one closure of Utils.throttle(func, TIME_UPDATE_INTERVAL) *)
(* against the clock, in milliseconds.  throttled is                       *)
(*   now       what Date.now() returns                                     *)
(*   lastRan   0: undefined, else the time of the last invocation of func  *)
(*   lastFunc  0: no timer waits, else the time for which the timer is set *)
(*   prevRan   history: the value that lastRan had before                  *)
(* func itself takes no time.                                              *)
(***************************************************************************)
TIME_UPDATE_INTERVAL == 100

\* how far the clock runs
MaxClock == 130

\* a timer can fire this much before Date.now() has reached the time it
\* was set for (the two clocks are rounded apart)
TimerSkew == 1

NewThrottle == [now |-> 1, lastRan |-> 0, lastFunc |-> 0, prevRan |-> 0]

\* mutant: the trailing call is made whenever the timer fires
ThrottleElapsedAlways(now, lastRan, limit) == TRUE

\* (Date.now() - lastRan) >= limit
ThrottleElapsed(now, lastRan, limit) == (now - lastRan) >= limit

\* func.apply(context, args); lastRan = Date.now()
Invoke(t) == [t EXCEPT !.prevRan = t.lastRan, !.lastRan = t.now]

\* the closure is called
ThrottledCall(t, limit) ==
  IF t.lastRan = 0
  THEN Invoke(t)
  ELSE LET delay == limit - (t.now - t.lastRan)
       IN [t EXCEPT !.lastFunc = t.now + (IF delay > 0 THEN delay ELSE 0)]

\* the function given to setTimeout runs
ThrottledTimeout(t, limit) ==
  IF ThrottleElapsed(t.now, t.lastRan, limit)
  THEN [Invoke(t) EXCEPT !.lastFunc = 0]
  ELSE [t EXCEPT !.lastFunc = 0]

\* a 'timeupdate' notification reaches the closure
ThrottleNotify ==
  /\ throttled' = ThrottledCall(throttled, TIME_UPDATE_INTERVAL)
  /\ UNCHANGED <<parserVars, sessions, uiVars, fetchVars, stateVars, envVars>>

\* the timer fires, at its time, late, or TimerSkew early
ThrottleTimeout ==
  /\ throttled.lastFunc # 0
  /\ throttled.now >= throttled.lastFunc - TimerSkew
  /\ throttled' = ThrottledTimeout(throttled, TIME_UPDATE_INTERVAL)
  /\ UNCHANGED <<parserVars, sessions, uiVars, fetchVars, stateVars, envVars>>

\* a millisecond passes
ClockTick ==
  /\ throttled.now < MaxClock
  /\ throttled' = [throttled EXCEPT !.now = @ + 1]
  /\ UNCHANGED <<parserVars, sessions, uiVars, fetchVars, stateVars, envVars>>

(***************************************************************************)
(* SpecOverlay: SubtitleOverlay.updateOverlay with show(), hide() and the  *)
(* callbacks they schedule.  overlay is                                    *)
(*   text        the textContent of the two lines                          *)
(*   opacity     style.opacity of the container, 0 or 1                    *)
(*   hidden      style.visibility of the container is 'hidden'             *)
(*   isVisible   state.isVisible                                           *)
(*   frames      requestAnimationFrame callbacks of show() not yet run     *)
(*   timers      setTimeout callbacks of hide() not yet run                *)
(* The container exists: init() creates it.                                *)
(***************************************************************************)
MaxPending == 2

Texts == {"", "Hi", "Bye"}

\* createOverlay: no opacity or visibility is set, isVisible is false
NewOverlay ==
  [text |-> <<"", "">>, opacity |-> 1, hidden |-> FALSE, isVisible |-> FALSE,
   frames |-> 0, timers |-> 0]

\* show() does nothing: !(this.state.container && !this.state.isVisible)
ShowSkips(o) == o.isVisible

show(o) ==
  IF ShowSkips(o) THEN o
  ELSE [o EXCEPT !.opacity = 0, !.hidden = FALSE, !.frames = @ + 1,
                 !.isVisible = TRUE]

hide(o) ==
  IF o.isVisible THEN [o EXCEPT !.opacity = 0, !.timers = @ + 1] ELSE o

updateOverlay(o, subtitle1Text, subtitle2Text) ==
  LET written == [o EXCEPT !.text = <<subtitle1Text, subtitle2Text>>]
  IN IF subtitle1Text # "" \/ subtitle2Text # "" THEN show(written)
                                                 ELSE hide(written)

\* the loop gives a pair to the renderer
UpdateOverlay ==
  /\ overlay.frames < MaxPending
  /\ overlay.timers < MaxPending
  /\ \E subtitle1Text \in Texts, subtitle2Text \in Texts :
       overlay' = updateOverlay(overlay, subtitle1Text, subtitle2Text)
  /\ UNCHANGED <<popup, parserVars, throttled, sessions, fetchVars, stateVars, envVars>>

\* the callback that show() gave to requestAnimationFrame runs
AnimationFrame ==
  /\ overlay.frames > 0
  /\ overlay' = [overlay EXCEPT !.opacity = 1, !.frames = @ - 1]
  /\ UNCHANGED <<popup, parserVars, throttled, sessions, fetchVars, stateVars, envVars>>

\* the callback that hide() gave to setTimeout runs, ANIMATION.DURATION later
HideTimeout ==
  /\ overlay.timers > 0
  /\ overlay' = [overlay EXCEPT !.hidden = TRUE, !.isVisible = FALSE,
                                !.timers = @ - 1]
  /\ UNCHANGED <<popup, parserVars, throttled, sessions, fetchVars, stateVars, envVars>>

(***************************************************************************)
(* SpecPopup: the size and position buttons of the popup, each click an    *)
(* adjustSetting(key, delta) call with two awaits.  popup is               *)
(*   storage   chrome.storage.local, the two keys of subtitle 1            *)
(*   initial   history: the storage before the first click                 *)
(*   pending   the adjustSetting calls that have not returned, each with   *)
(*             pc "get" (awaiting storage.get) or "set" (awaiting          *)
(*             storage.set of `value`)                                     *)
(*   log       history: the clicks, in order                               *)
(***************************************************************************)
MaxClicks == 3

Min(a, b) == IF a < b THEN a ELSE b

Max(a, b) == IF a > b THEN a ELSE b

\* the buttons of subtitle 1: font plus, font minus, position up, position down
Buttons ==
  {<<"sizeSub1", 1>>, <<"sizeSub1", -1>>, <<"posSub1", 3>>, <<"posSub1", -3>>}

\* key.includes('size')
IsSizeKey(key) == key = "sizeSub1"

\* the limits applied to value + delta
Clamp(key, value) ==
  IF IsSizeKey(key) THEN Max(-5, Min(10, value)) ELSE Max(-20, Min(20, value))

PopupAt(size, pos) ==
  LET stored == [sizeSub1 |-> size, posSub1 |-> pos]
  IN [storage |-> stored, initial |-> stored, pending |-> <<>>, log |-> <<>>]

NewPopup == PopupAt(0, 0)

\* a click: adjustSetting runs up to its first await
Click ==
  /\ Len(popup.log) < MaxClicks
  /\ \E b \in Buttons :
       popup' = [popup EXCEPT
                   !.log = Append(@, b),
                   !.pending = Append(@, [key |-> b[1], delta |-> b[2],
                                          pc |-> "get", value |-> 0])]
  /\ UNCHANGED <<overlay, parserVars, throttled, sessions, fetchVars, stateVars, envVars>>

\* storage.get of a call resolves: the call applies the limits to what it
\* read and calls storage.set
StorageGet ==
  /\ \E i \in 1..Len(popup.pending) :
       /\ popup.pending[i].pc = "get"
       /\ popup' = [popup EXCEPT
                      !.pending[i].pc = "set",
                      !.pending[i].value =
                         Clamp(popup.pending[i].key,
                               popup.storage[popup.pending[i].key]
                                 + popup.pending[i].delta)]
  /\ UNCHANGED <<overlay, parserVars, throttled, sessions, fetchVars, stateVars, envVars>>

\* storage.set of a call is applied and the call returns
StorageSet ==
  /\ \E i \in 1..Len(popup.pending) :
       /\ popup.pending[i].pc = "set"
       /\ popup' = [popup EXCEPT
                      !.storage[popup.pending[i].key] = popup.pending[i].value,
                      !.pending = SubSeq(@, 1, i - 1) \o SubSeq(@, i + 1, Len(@))]
  /\ UNCHANGED <<overlay, parserVars, throttled, sessions, fetchVars, stateVars, envVars>>

(***************************************************************************)
(* The fetch sessions of the loop.  The turns of a session touch nothing   *)
(* but its own locals (SpecFetch follows them one by one), so the loop     *)
(* sees a session twice: when loadSubtitles starts it and when it ends.    *)
(***************************************************************************)
\* every way a fetchAllVTTs(url) call that is in state s can end
RECURSIVE Reach(_, _)
Reach(url, s) ==
  IF s.pc \in {"returned", "thrown"} THEN {s}
  ELSE IF s.pc = "delay" THEN Reach(url, OnDelayElapsed(s))
  ELSE UNION {Reach(url, OnResponse(s, raw)) : raw \in RemoteOutcomes(url, s.index)}

OutcomesA == {[pc |-> t.pc, allContent |-> t.allContent] : t \in Reach("A", NewSession)}

OutcomesB == {[pc |-> t.pc, allContent |-> t.allContent] : t \in Reach("B", NewSession)}

SessionOutcomes(slot) == IF slot = 1 THEN OutcomesA ELSE OutcomesB

(***************************************************************************)
(* SpecPair: the two sessions that loadSubtitles starts for one start(),   *)
(* followed turn by turn in every interleaving, each with the .then steps  *)
(* that store its track; pc "stored": the track of the session is stored   *)
(***************************************************************************)
SlotUrl(slot) == IF slot = 1 THEN "A" ELSE "B"

\* mutant: every session stores its track in subtitle1Subtitles
StoreTrackInFirstSlot(slot, subtitles) == <<subtitles, subtitle2Subtitles>>

\* this.state.subtitle1Subtitles = subtitles / this.state.subtitle2Subtitles =
\* subtitles: the two track slots after it
StoreTrack(slot, subtitles) ==
  <<IF slot = 1 THEN subtitles ELSE subtitle1Subtitles,
    IF slot = 2 THEN subtitles ELSE subtitle2Subtitles>>

\* enhancedFetch settles for the session of a slot
PairRespond ==
  \E slot \in {1, 2} :
    /\ sessions[slot].pc = "request"
    /\ \E raw \in RemoteOutcomes(SlotUrl(slot), sessions[slot].index) :
         sessions' = [sessions EXCEPT ![slot] = OnResponse(sessions[slot], raw)]
    /\ UNCHANGED <<parserVars, throttled, uiVars, fetchVars, stateVars, envVars>>

\* the retry timer of the session of a slot fires
PairDelayElapsed ==
  \E slot \in {1, 2} :
    /\ sessions[slot].pc = "delay"
    /\ sessions' = [sessions EXCEPT ![slot] = OnDelayElapsed(sessions[slot])]
    /\ UNCHANGED <<parserVars, throttled, uiVars, fetchVars, stateVars, envVars>>

\* .then(content => parseVTT(content)).then(subtitles => store) of a slot
PairStore ==
  \E slot \in {1, 2} :
    /\ sessions[slot].pc = "returned"
    /\ sessions' = [sessions EXCEPT ![slot].pc = "stored"]
    /\ LET stored == StoreTrack(slot, parseVTT(sessions[slot].allContent))
       IN /\ subtitle1Subtitles' = stored[1]
          /\ subtitle2Subtitles' = stored[2]
    /\ UNCHANGED <<parserVars, throttled, uiVars, fetchVars, videoElement, isActive,
                   lastSubtitle1Text, lastSubtitle2Text, currentTime,
                   timeUpdateHandler, envVars>>

(***************************************************************************)
(* start(subtitle1Url, subtitle2Url)                                       *)
(* A call is [sess, status, stopped]: for each slot "none" (no URL),        *)
(* "request" (the session runs), "returned" or "thrown"; "loading"         *)
(* (start() awaits Promise.all), "started" or "failed" (start() has        *)
(* returned); and, as history, whether stop() ran since the call was made. *)
(***************************************************************************)
\* a call whose start() has returned and whose sessions are all over is gone
Finished(call) ==
  /\ call.status # "loading"
  /\ \A slot \in {1, 2} : call.sess[slot] # "request"

Running(c) == SelectSeq(c, LAMBDA call : ~Finished(call))

\* the messages of the errors that start() and handleStartCommand meet
NoUrlsMessage == "No subtitle URLs provided"
NoContentMessage == "No valid VTT content found"
NotAFunctionMessage == "this.state.videoElement.addEventListener is not a function"

\* error.message.includes(word), for the words handleStartCommand looks for
MessageIncludes(message, word) ==
  word \in (IF message = NoUrlsMessage THEN {"No subtitle URLs"}
            ELSE IF message = NotAFunctionMessage THEN {"video"}
            ELSE {})

\* handleStartCommand's catch: the subtitleStatus for an error message
CommandErrorStatus(message) ==
  IF MessageIncludes(message, "No subtitle URLs") THEN "Subtitle URL cannot be empty"
  ELSE IF MessageIncludes(message, "fetch") THEN "Failed to fetch subtitle from URL"
  ELSE IF MessageIncludes(message, "parse") THEN "Failed to parse VTT subtitle"
  ELSE IF MessageIncludes(message, "video") THEN "Video element not found"
  ELSE "Failed to fetch subtitle"

\* start() of `call` returns, with success ('' as message) or with an error;
\* a call made by handleStartCommand then writes the two statuses
StartReturned(call, message) ==
  LET r == [NoCall EXCEPT !.op = "start", !.ok = (message = ""), !.sess = call.sess]
  IN IF ~call.cmd THEN r
     ELSE IF message = ""
     THEN [r EXCEPT !.subtitleStatus = "Success", !.status = "Fetching"]
     ELSE [r EXCEPT !.subtitleStatus = CommandErrorStatus(message),
                    !.status = "Failed"]

\* mutant: the catch block of start() resets the loop to Idle
ActiveAfterCatchIdle == FALSE

\* the catch block of start() returns the error and leaves isActive alone
ActiveAfterCatch == isActive

\* setupVideoMonitoring and the rest of start(), once loadSubtitles resolved;
\* c is the sequence of calls with call k in it
FinishStart(k, c) ==
  LET el == safeQuerySelector(domVideo)
      h == FreeHandler
      hs == [handlers EXCEPT ![h] = NewHandler]
  IN /\ videoElement' = el
     /\ timeUpdateHandler' = h
     /\ IF el = PromiseObject
        THEN \* addEventListener is no function of a Promise: start() fails
             /\ calls' = Running([c EXCEPT ![k].status = "failed"])
             /\ lastCall' = StartReturned(c[k], NotAFunctionMessage)
             /\ handlers' = Collect(hs, h, listeners)
             /\ isActive' = ActiveAfterCatch
             /\ UNCHANGED listeners
        ELSE /\ listeners' = listeners \cup {<<el, h>>}
             /\ handlers' = Collect(hs, h, listeners \cup {<<el, h>>})
             /\ isActive' = TRUE
             /\ calls' = Running([c EXCEPT ![k].status = "started"])
             /\ lastCall' = StartReturned(c[k], "")

\* start(url1, url2) up to its first await: loadSubtitles starts the
\* sessions; cmd: the call is made by handleStartCommand
start(url1, url2, cmd) ==
  LET sess == <<IF url1 # "" THEN "request" ELSE "none",
                IF url2 # "" THEN "request" ELSE "none">>
      c == Append(calls, [sess |-> sess, status |-> "loading",
                          stopped |-> FALSE, cmd |-> cmd])
  IN IF url1 = "" /\ url2 = ""
     THEN \* Promise.all([]) resolves at once
          FinishStart(Len(c), c)
     ELSE /\ calls' = c
          /\ lastCall' = NoCall
          /\ UNCHANGED <<videoElement, timeUpdateHandler, handlers, listeners,
                         isActive>>

\* a start() can be followed to its end within the bounds
CanStart ==
  /\ calls = <<>>
  /\ Cardinality({h \in HandlerIds : handlers[h].live}) < MaxClosures

\* SubtitleManager.start called directly
StartCall ==
  /\ CanStart
  /\ \E url1 \in {"", "A"}, url2 \in {"", "B"} : start(url1, url2, FALSE)
  /\ UNCHANGED <<unitVars, fetchVars, rendered, subtitle1Subtitles, subtitle2Subtitles,
                 lastSubtitle1Text, lastSubtitle2Text, currentTime, domVideo>>

\* SubtitleManager.start called while the start() before it is still loading
StartAgain ==
  /\ Len(calls) = 1
  /\ calls[1].status = "loading"
  /\ Cardinality({h \in HandlerIds : handlers[h].live}) + Len(calls) < MaxClosures
  /\ \E url1 \in {"", "A"}, url2 \in {"", "B"} : start(url1, url2, FALSE)
  /\ UNCHANGED <<unitVars, fetchVars, rendered, subtitle1Subtitles, subtitle2Subtitles,
                 lastSubtitle1Text, lastSubtitle2Text, currentTime, domVideo>>

\* handleStartCommand, with the two URLs that the storage holds
StartCommand ==
  /\ CanStart
  /\ \E subtitleSub1URL \in {"", "A"}, subtitleSub2URL \in {"", "B"} :
       IF subtitleSub1URL = "" /\ subtitleSub2URL = ""
       THEN \* thrown before start() is called
            /\ lastCall' = [NoCall EXCEPT
                              !.op = "startCommand", !.ok = FALSE,
                              !.subtitleStatus = CommandErrorStatus(NoUrlsMessage),
                              !.status = "Failed"]
            /\ UNCHANGED <<calls, videoElement, timeUpdateHandler, handlers,
                           listeners, isActive>>
       ELSE start(subtitleSub1URL, subtitleSub2URL, TRUE)
  /\ UNCHANGED <<unitVars, fetchVars, rendered, subtitle1Subtitles, subtitle2Subtitles,
                 lastSubtitle1Text, lastSubtitle2Text, currentTime, domVideo>>

\* a session that no longer keeps Promise.all waiting
Settled(pc) == pc \in {"none", "returned"}

\* the session of slot `slot` of call k ends, and with it run the .then()
\* steps of loadSubtitles and whatever of start() they release
SessionEnds ==
  \E k \in 1..Len(calls), slot \in {1, 2} :
    /\ calls[k].sess[slot] = "request"
    /\ \E t \in SessionOutcomes(slot) :
         LET c == [calls EXCEPT ![k].sess[slot] = t.pc]
         IN /\ IF t.pc = "returned"
               THEN \* .then(parseVTT).then(store)
                    /\ subtitle1Subtitles' =
                         IF slot = 1 THEN parseVTT(t.allContent)
                                     ELSE subtitle1Subtitles
                    /\ subtitle2Subtitles' =
                         IF slot = 2 THEN parseVTT(t.allContent)
                                     ELSE subtitle2Subtitles
               ELSE UNCHANGED <<subtitle1Subtitles, subtitle2Subtitles>>
            /\ IF /\ calls[k].status = "loading"
                  /\ t.pc = "returned"
                  /\ Settled(c[k].sess[3 - slot])
               THEN FinishStart(k, c)
               ELSE /\ calls' =
                         IF calls[k].status = "loading" /\ t.pc = "thrown"
                         THEN Running([c EXCEPT ![k].status = "failed"])
                         ELSE Running(c)
                    /\ lastCall' =
                         IF calls[k].status = "loading" /\ t.pc = "thrown"
                         THEN StartReturned(c[k], NoContentMessage)
                         ELSE NoCall
                    /\ UNCHANGED <<videoElement, timeUpdateHandler, handlers,
                                   listeners, isActive>>
    /\ UNCHANGED <<unitVars, fetchVars, rendered, lastSubtitle1Text, lastSubtitle2Text, currentTime,
                   domVideo>>

(***************************************************************************)
(* stop()                                                                  *)
(***************************************************************************)
\* stop(); cmd: called by handleStopCommand, which then writes the statuses
stop(cmd) ==
  LET written == IF cmd THEN "Stopped" ELSE ""
  IN
  /\ IF videoElement = PromiseObject /\ timeUpdateHandler # 0
     THEN \* removeEventListener is no function of a Promise: the catch
          \* branch returns before anything is cleared
          /\ lastCall' = [NoCall EXCEPT !.op = "stop", !.ok = FALSE,
                            !.subtitleStatus = written, !.status = written]
          /\ UNCHANGED <<stateVars, listeners, handlers, calls, rendered>>
     ELSE /\ listeners' = listeners \ {<<videoElement, timeUpdateHandler>>}
          /\ handlers' = Collect(handlers, 0,
                                 listeners \ {<<videoElement, timeUpdateHandler>>})
          /\ videoElement' = 0
          /\ timeUpdateHandler' = 0
          /\ isActive' = FALSE
          /\ subtitle1Subtitles' = <<>>
          /\ subtitle2Subtitles' = <<>>
          /\ rendered' = <<<<>>, <<>>>>
          /\ lastCall' = [NoCall EXCEPT !.op = "stop", !.emitted = TRUE,
                            !.subtitleStatus = written, !.status = written]
          /\ calls' = IF calls = <<>> THEN calls
                       ELSE [k \in 1..Len(calls) |->
                               [calls[k] EXCEPT !.stopped = TRUE]]
          /\ UNCHANGED <<lastSubtitle1Text, lastSubtitle2Text, currentTime>>

\* SubtitleManager.stop called directly
Stop ==
  /\ stop(FALSE)
  /\ UNCHANGED <<unitVars, fetchVars, domVideo>>

StopCommand ==
  /\ stop(TRUE)
  /\ UNCHANGED <<unitVars, fetchVars, domVideo>>

(***************************************************************************)
(* pauseOperations, resumeOperations (the page is hidden / visible again)  *)
(***************************************************************************)
\* the condition under which both touch the listener
HasSampler == isActive /\ videoElement # 0 /\ timeUpdateHandler # 0

PauseOperations ==
  /\ IF HasSampler /\ videoElement # PromiseObject
     THEN /\ listeners' = listeners \ {<<videoElement, timeUpdateHandler>>}
          /\ handlers' = Collect(handlers, timeUpdateHandler,
                                 listeners \ {<<videoElement, timeUpdateHandler>>})
     ELSE \* nothing to do, or the TypeError of a Promise is caught
          UNCHANGED <<listeners, handlers>>
  /\ lastCall' = [NoCall EXCEPT !.op = "pause"]
  /\ UNCHANGED <<unitVars, fetchVars, rendered, stateVars, calls, domVideo>>

ResumeOperations ==
  /\ IF HasSampler /\ videoElement # PromiseObject
     THEN listeners' = listeners \cup {<<videoElement, timeUpdateHandler>>}
     ELSE UNCHANGED listeners
  /\ lastCall' = [NoCall EXCEPT !.op = "resume"]
  /\ UNCHANGED <<unitVars, fetchVars, rendered, stateVars, calls, handlers, domVideo>>

(***************************************************************************)
(* performCleanup, run by the interval of setupPeriodicCleanup while the   *)
(* loop is active, with reconnectVideoElement                              *)
(***************************************************************************)
\* the filter that performCleanup applies to both tracks
CleanCues(track) ==
  SelectSeq(track, LAMBDA sub : /\ sub.startTime >= 0
                                /\ sub.endTime > sub.startTime
                                /\ sub.text # <<>>)

PerformCleanup ==
  /\ isActive
  /\ subtitle1Subtitles' = CleanCues(subtitle1Subtitles)
  /\ subtitle2Subtitles' = CleanCues(subtitle2Subtitles)
  /\ IF videoElement > 0 /\ videoElement # domVideo
     THEN \* reconnectVideoElement
          LET el == safeQuerySelector(domVideo)
              old == IF timeUpdateHandler # 0
                     THEN listeners \ {<<videoElement, timeUpdateHandler>>}
                     ELSE listeners
              new == IF timeUpdateHandler # 0 /\ el # PromiseObject
                     THEN old \cup {<<el, timeUpdateHandler>>}
                     ELSE old
          IN /\ videoElement' = el
             /\ listeners' = new
             /\ handlers' = Collect(handlers, timeUpdateHandler, new)
     ELSE \* the element is in the document, or document.contains throws
          \* the TypeError of a Promise and the catch branch ends the pass
          UNCHANGED <<videoElement, listeners, handlers>>
  /\ lastCall' = [NoCall EXCEPT !.op = "cleanup"]
  /\ UNCHANGED <<unitVars, fetchVars, rendered, isActive, lastSubtitle1Text, lastSubtitle2Text,
                 currentTime, timeUpdateHandler, calls, domVideo>>

(***************************************************************************)
(* The page: the video element leaves or enters the document               *)
(***************************************************************************)
DomRemoveVideo ==
  /\ domVideo # 0
  /\ domVideo' = 0
  /\ lastCall' = NoCall
  /\ UNCHANGED <<unitVars, fetchVars, rendered, stateVars, calls, handlers, listeners>>

DomInsertVideo ==
  /\ domVideo = 0
  /\ \E el \in Elements : domVideo' = el
  /\ lastCall' = NoCall
  /\ UNCHANGED <<unitVars, fetchVars, rendered, stateVars, calls, handlers, listeners>>

(***************************************************************************)
(* SpecParse: parseVTT, validateVTTContentDetailed, findSubtitleForTime    *)
(* and the parse of what fetchAllVTTs builds, each applied to one input    *)
(***************************************************************************)
\* lines of an input document
MaxLines == 4
\* cues of a track that is queried
MaxCues == 2

\* a cue-header line with layout hints after the end timestamp
HintedLine == [TsLine(Stamp(5, 500), Stamp(6, 0)) EXCEPT !.t = "align:start"]

\* the lines that input documents are made of
Lines ==
  {TextLine("WEBVTT"), BlankLine, TextLine("Hello"),
   TsLine(Stamp(1, 0), Stamp(2, 0)), HintedLine,
   TsLine(Stamp(2, 0), Stamp(1, 0))}

\* the documents of at most n lines
Documents(n) == UNION {[1..m -> Lines] : m \in 1..n}

\* a cue object as parseVTT makes it
Cue(startTime, endTime, word) ==
  [startTime |-> startTime, endTime |-> endTime, text |-> <<TextLine(word)>>,
   originalStart |-> NoStamp, originalEnd |-> <<NoStamp, "">>]

\* cues that overlap ("A", "B"), that are disjoint ("A", "C"; "B", "C") and
\* one that starts with the video ("Z")
Cues ==
  {Cue(1000, 2000, "A"), Cue(1500, 3000, "B"), Cue(5000, 6000, "C"),
   Cue(0, 500, "Z")}

\* the tracks of at most n cues, in any order
Tracks(n) == UNION {[1..m -> Cues] : m \in 0..n}

QueryTimes == {0, 899, 900, 1500, 2100, 2101, 3000, 3101, 4899, 4900, 6100, 6101}

Tolerances == {0, TOLERANCE}

\* the documents of n lines that the validation pass of fetchAllVTTs lets
\* through
ValidDocuments(n) ==
  {d \in [1..n -> Lines] : validateVTTContentDetailed(d).isValid}

\* the lists of such segments with at most n lines in all
RECURSIVE SegmentListsWithin(_)
SegmentListsWithin(n) ==
  {<<>>} \cup
  UNION {LET rests == SegmentListsWithin(n - m)
         IN {<<d>> \o rest : d \in ValidDocuments(m), rest \in rests} :
           m \in 1..n}

\* what the remote side can serve for a track, segment by segment
SegmentLists(n) == SegmentListsWithin(n) \ {<<>>}

\* allContent after fetchAllVTTs appended the segments one by one
RECURSIVE BuildContent(_, _)
BuildContent(parts, allContent) ==
  IF parts = <<>> THEN allContent
  ELSE BuildContent(Tail(parts), StrConcat(allContent, WithNewline(Head(parts))))

\* the cue sequences of the segments parsed one by one, concatenated
RECURSIVE ParseEach(_)
ParseEach(parts) ==
  IF parts = <<>> THEN <<>> ELSE parseVTT(Head(parts)) \o ParseEach(Tail(parts))

NoInput ==
  [kind |-> "none", lines |-> <<>>, parts |-> <<>>, track |-> <<>>,
   time |-> 0, tolerance |-> 0]

Inputs(maxLines, maxCues) ==
  {[NoInput EXCEPT !.kind = "document", !.lines = d] : d \in Documents(maxLines)}
  \cup {[NoInput EXCEPT !.kind = "segments", !.parts = p] :
          p \in SegmentLists(maxLines)}
  \cup {[NoInput EXCEPT !.kind = "query", !.track = tr[1], !.time = tr[2],
                        !.tolerance = tr[3]] :
          tr \in Tracks(maxCues) \X QueryTimes \X Tolerances}

NoOutput ==
  [op |-> "none", cues |-> <<>>, validation |-> validateVTTContentDetailed(EmptyText),
   time |-> 0, match |-> <<>>, joined |-> <<>>, apart |-> <<>>,
   subtitles |-> validateSubtitles(<<>>)]

ParseDocument ==
  /\ parserInput.kind = "document"
  /\ parserOutput.op = "none"
  /\ parserOutput' = [NoOutput EXCEPT !.op = "parseVTT",
                                      !.cues = parseVTT(parserInput.lines)]
  /\ UNCHANGED <<parserInput, throttled, sessions, uiVars, fetchVars, stateVars,
                 envVars>>

\* the parsed document is queried as handleVideoTimeUpdate queries a track
FindInParsed ==
  /\ parserOutput.op = "parseVTT"
  /\ \E time \in QueryTimes :
       parserOutput' =
         [parserOutput EXCEPT
            !.op = "parseVTT+findSubtitleForTime", !.time = time,
            !.match = findSubtitleForTime(parserOutput.cues, time, TOLERANCE)]
  /\ UNCHANGED <<parserInput, throttled, sessions, uiVars, fetchVars, stateVars,
                 envVars>>

ValidateDocument ==
  /\ parserInput.kind = "document"
  /\ parserOutput.op = "none"
  /\ parserOutput' =
       [NoOutput EXCEPT !.op = "validateVTTContentDetailed",
                        !.validation = validateVTTContentDetailed(parserInput.lines)]
  /\ UNCHANGED <<parserInput, throttled, sessions, uiVars, fetchVars, stateVars,
                 envVars>>

FindCue ==
  /\ parserInput.kind = "query"
  /\ parserOutput.op = "none"
  /\ parserOutput' =
       [NoOutput EXCEPT !.op = "findSubtitleForTime",
                        !.match = findSubtitleForTime(parserInput.track,
                                                      parserInput.time,
                                                      parserInput.tolerance)]
  /\ UNCHANGED <<parserInput, throttled, sessions, uiVars, fetchVars, stateVars,
                 envVars>>

\* validateLoadedSubtitles: validateSubtitles on a track
ValidateTrack ==
  /\ parserInput.kind = "query"
  /\ parserOutput.op = "none"
  /\ parserOutput' =
       [NoOutput EXCEPT !.op = "validateSubtitles",
                        !.subtitles = validateSubtitles(parserInput.track)]
  /\ UNCHANGED <<parserInput, throttled, sessions, uiVars, fetchVars, stateVars,
                 envVars>>

\* the filter of performCleanup on a track
CleanTrack ==
  /\ parserInput.kind = "query"
  /\ parserOutput.op = "none"
  /\ parserOutput' = [NoOutput EXCEPT !.op = "performCleanup",
                                      !.cues = CleanCues(parserInput.track)]
  /\ UNCHANGED <<parserInput, throttled, sessions, uiVars, fetchVars, stateVars,
                 envVars>>

\* the segments as fetchAllVTTs and loadSubtitles treat them, and one by one
ParseSegments ==
  /\ parserInput.kind = "segments"
  /\ parserOutput.op = "none"
  /\ parserOutput' =
       [NoOutput EXCEPT !.op = "segments",
                        !.joined = parseVTT(BuildContent(parserInput.parts, EmptyText)),
                        !.apart = ParseEach(parserInput.parts)]
  /\ UNCHANGED <<parserInput, throttled, sessions, uiVars, fetchVars, stateVars,
                 envVars>>

(***************************************************************************)
(* Specifications                                                          *)
(***************************************************************************)
\* the loop and the fetch session before anything ran
InitLoop ==
  /\ fetchSession = NewSession
  /\ fetchLog = <<>>
  /\ subtitle1Subtitles = <<>>
  /\ subtitle2Subtitles = <<>>
  /\ videoElement = 0
  /\ isActive = FALSE
  /\ lastSubtitle1Text = <<>>
  /\ lastSubtitle2Text = <<>>
  /\ currentTime = 0
  /\ timeUpdateHandler = 0
  /\ calls = <<>>
  /\ handlers = [h \in HandlerIds |-> NoHandler]
  /\ listeners = {}
  /\ domVideo \in Elements
  /\ lastCall = NoCall
  /\ rendered = <<<<>>, <<>>>>
  /\ throttled = NewThrottle
  /\ overlay = NewOverlay

Init ==
  /\ InitLoop
  /\ sessions = <<NoSession, NoSession>>
  /\ baseUrl = Url("seg", 1, ".vtt", "")
  /\ popup = NewPopup
  /\ parserInput = NoInput
  /\ parserOutput = NoOutput

\* the synchronization loop with its fetch sessions
Next ==
  \/ StartCall
  \/ SessionEnds
  \/ Stop
  \/ TimeUpdate
  \/ TimerFire
  \/ DomRemoveVideo
  \/ DomInsertVideo

Spec == Init /\ [][Next]_vars

\* the loop together with the command handlers, the page-visibility
\* handlers and the periodic cleanup
NextHost ==
  \/ Next
  \/ StartCommand
  \/ StopCommand
  \/ PauseOperations
  \/ ResumeOperations
  \/ PerformCleanup

SpecHost == Init /\ [][NextHost]_vars

\* one fetch session in isolation
NextFetch ==
  \/ FetchRespond
  \/ FetchDelayElapsed

SpecFetch == Init /\ [][NextFetch]_vars

\* the parser's functions on every input within the bounds
InitParse ==
  /\ InitLoop
  /\ sessions = <<NoSession, NoSession>>
  /\ baseUrl = Url("seg", 1, ".vtt", "")
  /\ popup = NewPopup
  /\ parserInput \in Inputs(MaxLines, MaxCues)
  /\ parserOutput = NoOutput

NextParse ==
  \/ ParseDocument
  \/ FindInParsed
  \/ ValidateDocument
  \/ FindCue
  \/ ValidateTrack
  \/ CleanTrack
  \/ ParseSegments

SpecParse == InitParse /\ [][NextParse]_vars

\* the two fetch sessions of a start() with both URLs
\* start() calls that overlap
NextOverlap ==
  \/ StartCall
  \/ StartAgain
  \/ SessionEnds
  \/ Stop

SpecOverlap == Init /\ [][NextOverlap]_vars

\* the overlay, given pairs at any time
NextOverlay ==
  \/ UpdateOverlay
  \/ AnimationFrame
  \/ HideTimeout

SpecOverlay == Init /\ [][NextOverlay]_vars

\* the popup over a storage that holds values near and away from the limits
InitPopup ==
  /\ InitLoop
  /\ sessions = <<NoSession, NoSession>>
  /\ baseUrl = Url("seg", 1, ".vtt", "")
  /\ popup \in {PopupAt(size, pos) : size \in {0, 9}, pos \in {0, 19}}
  /\ parserInput = NoInput
  /\ parserOutput = NoOutput

NextPopup ==
  \/ Click
  \/ StorageGet
  \/ StorageSet

SpecPopup == InitPopup /\ [][NextPopup]_vars

\* a fetch session for each template
InitUrl ==
  /\ InitLoop
  /\ sessions = <<NoSession, NoSession>>
  /\ baseUrl \in Templates
  /\ popup = NewPopup
  /\ parserInput = NoInput
  /\ parserOutput = NoOutput

NextUrl ==
  \/ UrlRespond
  \/ UrlDelayElapsed

SpecUrl == InitUrl /\ [][NextUrl]_vars

InitPair ==
  /\ InitLoop
  /\ sessions = <<NewSession, NewSession>>
  /\ baseUrl = Url("seg", 1, ".vtt", "")
  /\ popup = NewPopup
  /\ parserInput = NoInput
  /\ parserOutput = NoOutput

NextPair ==
  \/ PairRespond
  \/ PairDelayElapsed
  \/ PairStore

SpecPair == InitPair /\ [][NextPair]_vars

\* one throttle closure, notified at any time
NextThrottle ==
  \/ ThrottleNotify
  \/ ThrottleTimeout
  \/ ClockTick

SpecThrottle == Init /\ [][NextThrottle]_vars

(***************************************************************************)
(* Vocabulary of the claims about one fetch session (SpecFetch)            *)
(***************************************************************************)
Over == fetchSession.pc \in {"returned", "thrown"}

\* the attempt was answered with a body that passes the validation pass
Accepted(entry) ==
  entry.raw.status = 200 /\ validateVTTContentDetailed(entry.raw.body).isValid

\* the attempt was answered with a body that fails the validation pass
Rejected(entry) ==
  entry.raw.status = 200 /\ ~validateVTTContentDetailed(entry.raw.body).isValid

NotFound(entry) == entry.raw.status = 404

\* the attempt failed, and not with 'not found'
Failed(entry) == entry.raw.status # 200 /\ entry.raw.status # 404

\* the number of attempts up to and including attempt j that failed in a row
RECURSIVE FailedInARow(_)
FailedInARow(j) ==
  IF j = 0 \/ ~Failed(fetchLog[j]) THEN 0 ELSE 1 + FailedInARow(j - 1)

\* the segments accepted in the first j attempts, each followed by a newline
RECURSIVE Concatenation(_)
Concatenation(j) ==
  IF j = 0 THEN EmptyText
  ELSE IF Accepted(fetchLog[j])
       THEN StrConcat(Concatenation(j - 1), WithNewline(fetchLog[j].raw.body))
       ELSE Concatenation(j - 1)

\* the indices of the accepted segments among the first j attempts are 1..n
AcceptedCount(j) == Cardinality({i \in 1..j : Accepted(fetchLog[i])})

IsLastAttempt(j) == j = Len(fetchLog) /\ Over

\* C4: a failure that is not 'not found' raises the retry counter and is
\* retried at the same index; no index is attempted more than 3 times in a
\* row; when the counter reaches 3 the sequence stops, no later index is
\* requested and the loop ends with the content of the segments before it.
C4_RetrySameIndexAtMostThree ==
  /\ \A j \in 1..Len(fetchLog) :
       Failed(fetchLog[j]) =>
         LET n == FailedInARow(j)
         IN /\ n <= 3
            /\ n < 3 =>
                 IF j < Len(fetchLog)
                 THEN fetchLog[j + 1].index = fetchLog[j].index
                 ELSE /\ ~Over
                      /\ fetchSession.index = fetchLog[j].index
                      /\ fetchSession.retryCount = n
            /\ n = 3 =>
                 /\ IsLastAttempt(j)
                 /\ fetchSession.allContent = Concatenation(j)
                 /\ AcceptedCount(j) = fetchLog[j].index - 1
  /\ \A i \in 1..(MaxSegments + 1) :
       Cardinality({j \in 1..Len(fetchLog) : fetchLog[j].index = i}) <= 3

\* segment 1 was accepted at its third attempt, and segment 2 has just
\* failed for the third time in a row
W_C4_Exhausted ==
  /\ Len(fetchLog) = 6
  /\ Failed(fetchLog[1]) /\ Failed(fetchLog[2]) /\ Accepted(fetchLog[3])
  /\ \A j \in 1..3 : fetchLog[j].index = 1
  /\ \A j \in 4..6 : Failed(fetchLog[j]) /\ fetchLog[j].index = 2
  /\ Over

\* segment 1 accepted, then three failures of segment 2, and the call is over
SegmentTwoFailsThrice ==
  /\ Len(fetchLog) = 4
  /\ Accepted(fetchLog[1])
  /\ \A j \in 2..4 : Failed(fetchLog[j])
  /\ Over

Waits == [j \in 1..Len(fetchLog) |-> fetchLog[j].waited]

\* C5 as stated: segment 1 succeeds, segment 2 fails three times in a row:
\* the call returns the content of segment 1, having waited d, 2d, 4d.
C5_Original ==
  SegmentTwoFailsThrice =>
    /\ fetchSession.pc = "returned"
    /\ fetchSession.allContent = WithNewline(RemoteDoc("A", 1))
    /\ <<Waits[2], Waits[3], Waits[4]>> = <<1000, 2000, 4000>>

\* C5 as amended: ... having waited d after the first and 2d after the second
\* failed attempt, and nothing after the third; in general the k-th failure
\* in a row is followed by a wait of d * 2^(k-1) if k < 3 and by none if k = 3.
C5_DelaysDoubleTwice ==
  /\ SegmentTwoFailsThrice =>
       /\ fetchSession.pc = "returned"
       /\ fetchSession.allContent = WithNewline(RemoteDoc("A", 1))
       /\ <<Waits[2], Waits[3], Waits[4]>> = <<1000, 2000, 0>>
  /\ \A j \in 1..Len(fetchLog) :
       LET k == FailedInARow(j)
       IN IF k \in {1, 2}
          THEN IF j = Len(fetchLog) /\ fetchSession.pc = "delay"
               THEN \* the wait is on
                    fetchSession.delay = 1000 * 2 ^ (k - 1) /\ Waits[j] = 0
               ELSE Waits[j] = 1000 * 2 ^ (k - 1)
          ELSE Waits[j] = 0

W_C5_SegmentTwoFailsThrice == SegmentTwoFailsThrice

\* C6: 'not found' at segment i ends the sequence at once: the retry counter
\* is not raised, nothing is waited, no further segment is requested and the
\* loop ends with the concatenation of segments 1..i-1, also after failed
\* attempts at index i.
C6_NotFoundEndsSequence ==
  \A j \in 1..Len(fetchLog) :
    NotFound(fetchLog[j]) =>
      /\ IsLastAttempt(j)
      /\ Waits[j] = 0
      /\ fetchSession.retryCount = FailedInARow(j - 1)
      /\ fetchSession.index = fetchLog[j].index
      /\ fetchSession.allContent = Concatenation(j - 1)
      /\ AcceptedCount(j) = fetchLog[j].index - 1

\* segments 1 and 2 accepted, segment 3 fails once and is then not found
W_C6_NotFoundAtThree ==
  /\ Len(fetchLog) = 4
  /\ Accepted(fetchLog[1]) /\ Accepted(fetchLog[2])
  /\ Failed(fetchLog[3])
  /\ NotFound(fetchLog[4]) /\ fetchLog[4].index = 3
  /\ fetchSession.pc = "returned"

\* C7: the call throws 'No valid VTT content found' exactly when no segment
\* was accumulated when the loop ends; with at least one accepted segment it
\* returns the accumulated content, whatever ended the loop.
C7_ThrowsIffNothingAccumulated ==
  Over =>
    /\ fetchSession.pc = "thrown" <=> AcceptedCount(Len(fetchLog)) = 0
    /\ fetchSession.pc = "returned" =>
         /\ fetchSession.allContent = Concatenation(Len(fetchLog))
         /\ ~IsBlankText(fetchSession.allContent)

\* a call that returns segment 1 after the retries of segment 2 ran out
W_C7_ReturnsAfterExhaustion ==
  /\ fetchSession.pc = "returned"
  /\ AcceptedCount(Len(fetchLog)) = 1
  /\ FailedInARow(Len(fetchLog)) = 3

\* C8: a segment that is retrieved but fails the validation pass ends the
\* sequence: it is not appended, nothing is retried, waited or requested
\* after it, and the loop ends with what was accumulated before it.
C8_InvalidSegmentEndsSequence ==
  \A j \in 1..Len(fetchLog) :
    Rejected(fetchLog[j]) =>
      /\ IsLastAttempt(j)
      /\ Waits[j] = 0
      /\ fetchSession.index = fetchLog[j].index
      /\ fetchSession.allContent = Concatenation(j - 1)
      /\ (fetchSession.pc = "returned") = (AcceptedCount(j) > 0)

\* segment 1 accepted, then a body for segment 2 that fails validation
W_C8_InvalidAtTwo ==
  /\ Len(fetchLog) = 2
  /\ Accepted(fetchLog[1])
  /\ Rejected(fetchLog[2]) /\ ~IsBlankText(fetchLog[2].raw.body)
  /\ fetchSession.pc = "returned"

(***************************************************************************)
(* Claims about the synchronization loop (Spec)                            *)
(***************************************************************************)
Empty == <<>>

\* the pair of texts that the cue matcher resolves at time t
ResolvedPair(t) ==
  <<MatchText(findSubtitleForTime(subtitle1Subtitles, t, TOLERANCE)),
    MatchText(findSubtitleForTime(subtitle2Subtitles, t, TOLERANCE))>>

LastEmitted == <<lastSubtitle1Text, lastSubtitle2Text>>

TrackHi == parseVTT(WithNewline(RemoteDoc("A", 1)))

\* C1: a tick that is processed (Active, readable time) calls the renderer
\* exactly when the resolved pair differs from the last-emitted pair, gives
\* it the resolved pair and stores that pair as last-emitted; so an emission
\* never repeats the pair emitted before it.
C1_TickEmitsExactlyOnChange ==
  [][(lastCall'.op = "tick" /\ lastCall'.processed) =>
       LET pair == ResolvedPair(currentTime')
       IN /\ lastCall'.emitted <=> pair # LastEmitted
          /\ lastCall'.emitted => lastCall'.pair = pair /\ lastCall'.pair # LastEmitted
          /\ LastEmitted' = pair]_vars

\* track A holds the cue {0, 1, 'Hi'}, track B is empty, and the tick at 5.0
\* has emitted ('', ''): 'Hi' was emitted by an earlier tick
W_C1_EmptyPairEmittedAtFive ==
  /\ subtitle1Subtitles = TrackHi
  /\ subtitle2Subtitles = Empty
  /\ lastCall.op = "tick" /\ lastCall.emitted
  /\ lastCall.pair = <<Empty, Empty>>
  /\ currentTime = 5000

\* C2: when the fetch of one track ends in a hard failure and the other
\* track's fetch succeeds, the successful track is stored, the sampler is
\* attached and the loop is Active with the failed track empty.
C2_FailuresIsolatedPerTrack ==
  (lastCall.op = "start"
     /\ lastCall.sess \in {<<"returned", "thrown">>, <<"thrown", "returned">>}) =>
    /\ lastCall.ok
    /\ isActive
    /\ <<videoElement, timeUpdateHandler>> \in listeners
    /\ lastCall.sess[1] = "returned" =>
         subtitle1Subtitles # Empty /\ subtitle2Subtitles = Empty
    /\ lastCall.sess[2] = "returned" =>
         subtitle2Subtitles # Empty /\ subtitle1Subtitles = Empty

\* C3: once stop() has run while the fetches of a start() are in flight,
\* their results are discarded: no step writes a track slot, attaches a
\* sampler or makes the loop Active while that call is around.
C3_StoppedFetchesDiscarded ==
  [][(calls # <<>> /\ calls[1].stopped) =>
       /\ subtitle1Subtitles' = subtitle1Subtitles
       /\ subtitle2Subtitles' = subtitle2Subtitles
       /\ listeners' \subseteq listeners
       /\ ~isActive']_vars

\* C9: after stop() returns the sampler is detached, both track slots are
\* empty, the last-emitted pair is ('', '') and the loop is Idle.
C9_StopClearsEverything ==
  lastCall.op = "stop" =>
    /\ listeners = {}
    /\ subtitle1Subtitles = Empty /\ subtitle2Subtitles = Empty
    /\ LastEmitted = <<Empty, Empty>>
    /\ ~isActive

\* C10: stop() while the loop is Idle changes nothing in the track store or
\* the loop state, and stop() right after stop() changes nothing either.
C10_StopIdempotent ==
  [][lastCall'.op = "stop" =>
       /\ ~isActive => UNCHANGED <<stateVars, listeners>>
       /\ lastCall.op = "stop" => UNCHANGED <<stateVars, listeners>>]_vars

(***************************************************************************)
(* Claims about the loop with its host handlers (SpecHost)                 *)
(***************************************************************************)
\* C11: a start with both URLs absent, made through start() or through
\* handleStartCommand, fails: it reports an error, requests no segment,
\* attaches no sampler and does not change the Active flag.
C11_NoUrlsIsConfigurationError ==
  [][(\/ lastCall'.op = "startCommand"
      \/ lastCall'.op = "start" /\ lastCall'.sess = <<"none", "none">>) =>
       /\ ~lastCall'.ok
       /\ calls' = calls
       /\ listeners' = listeners
       /\ isActive' = isActive]_vars

\* the loop is Idle or holds no element whose time it could read
Halted == ~isActive \/ videoElement \in {0, PromiseObject}

\* the step is no part of a start(): none is in flight before or after it and
\* none ran to its end within it
NoStartAbout == calls = <<>> /\ calls' = <<>> /\ lastCall'.op # "start"

\* C12: stop() halts the loop, and with no start() in flight the loop stays
\* halted until a start(): a tick in that time, be it a new notification or
\* the trailing call of a throttle timer set before stop(), is not processed,
\* emits nothing to the renderer or the status channel and leaves the
\* last-emitted pair and the stored current time unchanged.
C12_NoTickAfterStop ==
  [][/\ lastCall'.op = "stop" => Halted'
     /\ (Halted /\ NoStartAbout) =>
          /\ Halted'
          /\ lastCall'.op = "tick" =>
               /\ ~lastCall'.processed /\ ~lastCall'.emitted
               /\ lastCall'.status = ""
               /\ UNCHANGED <<currentTime, lastSubtitle1Text, lastSubtitle2Text>>]_vars

\* after stop() (Idle, with the text of an earlier emission still stored) a
\* throttle timer set before it has fired with no listener attached any more
W_C12_TrailingCallAfterStop ==
  /\ lastCall.op = "tick" /\ ~lastCall.processed
  /\ ~isActive /\ videoElement = 0
  /\ listeners = {}
  /\ lastSubtitle1Text # Empty

\* the sampler of the loop: the stored handler as listener of the stored element
Sampler == <<videoElement, timeUpdateHandler>>

\* between pauseOperations and resumeOperations: the loop is Active with an
\* element and a handler, and the handler is not attached
Paused == HasSampler /\ videoElement # PromiseObject /\ Sampler \notin listeners

\* the step is the firing of a throttle timer (a trailing call)
TimerStep == \E h \in HandlerIds : handlers[h].pending /\ ~handlers'[h].pending

\* C13: in the Active state pauseOperations() detaches the sampler and
\* resumeOperations() attaches it; both leave the tracks, the last-emitted
\* pair and the Active flag unchanged and request no segment; while the
\* loop is paused no position notification is processed.
C13_PauseDetachesResumeReattaches ==
  [][/\ (isActive /\ lastCall'.op = "pause") =>
          /\ Sampler' \notin listeners'
          /\ UNCHANGED <<stateVars, calls>>
     /\ (isActive /\ lastCall'.op = "resume") =>
          /\ Sampler' \in listeners'
          /\ UNCHANGED <<stateVars, calls>>
     /\ (Paused /\ lastCall'.op = "tick" /\ ~TimerStep) =>
          ~lastCall'.processed]_vars

(***************************************************************************)
(* Claims about the synchronization loop (Spec), continued                 *)
(***************************************************************************)
\* C14: a tick that reads a playback time that is not a number is skipped:
\* it is not processed, gives nothing to the renderer or the status channel
\* and changes nothing of the loop's state, which stays Active; every tick
\* of an Active loop that reads a number, so also one after it, is processed.
C14_UnreadableTickSkipped ==
  [][/\ (lastCall'.op = "tick" /\ lastCall'.unreadable) =>
          /\ ~lastCall'.processed /\ ~lastCall'.emitted
          /\ lastCall'.status = ""
          /\ isActive /\ isActive'
          /\ UNCHANGED stateVars
     /\ (/\ isActive /\ videoElement \in Elements
         /\ lastCall'.op = "tick" /\ ~lastCall'.unreadable) =>
          lastCall'.processed]_vars

\* the element of an Active loop that shows 'Hi' has reported NaN
W_C14_UnreadableWhileShowing ==
  /\ lastCall.op = "tick" /\ lastCall.unreadable
  /\ isActive /\ videoElement \in Elements
  /\ lastSubtitle1Text # Empty

DisjointTrack(track) ==
  \A i, j \in 1..Len(track) :
    i # j => (track[i].endTime < track[j].startTime
              \/ track[j].endTime < track[i].startTime)

\* time lies more than the tolerance after cue i ends and more than the
\* tolerance before the next cue, k, starts
InGap(track, i, k, time, tolerance) ==
  /\ track[i].endTime < track[k].startTime
  /\ \A j \in 1..Len(track) :
       track[j].startTime > track[i].endTime =>
         track[j].startTime >= track[k].startTime
  /\ time > track[i].endTime + tolerance
  /\ time < track[k].startTime - tolerance

\* C16: findSubtitleForTime(track, time, tolerance) returns the first cue, in
\* the order the track gives, with startTime - tolerance <= time <=
\* endTime + tolerance, both bounds included, whatever the order or overlap
\* of the cues; it returns none when the track is empty or no cue satisfies
\* that; in a track of disjoint cues it returns none for a time more than
\* the tolerance after one cue's end and more than the tolerance before the
\* next cue's start.
C16_FirstCueInGivenOrder ==
  parserOutput.op = "findSubtitleForTime" =>
    LET track == parserInput.track
        time == parserInput.time
        tolerance == parserInput.tolerance
        Satisfies(i) == /\ track[i].startTime - tolerance <= time
                        /\ time <= track[i].endTime + tolerance
    IN /\ track = <<>> => parserOutput.match = <<>>
       /\ (\A i \in 1..Len(track) : ~Satisfies(i)) => parserOutput.match = <<>>
       /\ \A i \in 1..Len(track) :
            (Satisfies(i) /\ \A j \in 1..(i - 1) : ~Satisfies(j))
              => parserOutput.match = <<track[i]>>
       /\ (DisjointTrack(track)
           /\ \E i, k \in 1..Len(track) : InGap(track, i, k, time, tolerance))
            => parserOutput.match = <<>>

\* two overlapping cues given latest first: at an instant of both, the one
\* given first is returned
W_C16_OverlapFirstGiven ==
  /\ parserOutput.op = "findSubtitleForTime"
  /\ parserInput.track = <<Cue(1500, 3000, "B"), Cue(1000, 2000, "A")>>
  /\ parserInput.time = 1500
  /\ parserOutput.match = <<Cue(1500, 3000, "B")>>


(***************************************************************************)
(* C17                                                                     *)
(***************************************************************************)
\* text.trim() !== '' for a cue text kept as its lines
NonEmptyTrimmed(text) == \E j \in 1..Len(text) : text[j].k # "blank"

\* C17: for every input document, every cue that parseVTT emits ends after
\* it starts (endTime > startTime) and has a text that is non-empty after
\* trimming.
C17_EmittedCuesWellFormed ==
  parserOutput.op = "parseVTT" =>
    \A i \in 1..Len(parserOutput.cues) :
      /\ parserOutput.cues[i].endTime > parserOutput.cues[i].startTime
      /\ NonEmptyTrimmed(parserOutput.cues[i].text)


(***************************************************************************)
(* C18                                                                     *)
(***************************************************************************)
\* C18: for any sequence of segments that each pass the validation pass,
\* parsing their concatenation as fetchAllVTTs builds it (each segment's
\* text followed by one newline, in index order) yields the same cue
\* sequence, in order, as parsing each segment alone and concatenating the
\* resulting cue sequences.
C18_ConcatenationParsesAsSegments ==
  parserOutput.op = "segments" => parserOutput.joined = parserOutput.apart


(***************************************************************************)
(* C19                                                                     *)
(***************************************************************************)
\* HH:MM:SS.mmm in milliseconds
Millis(stamp) == ((stamp[1] * 60 + stamp[2]) * 60 + stamp[3]) * 1000 + stamp[4]

\* line i is a cue-header line that the scan reaches as a header: no
\* earlier header has it among the non-blank lines that follow it
ReachedHeader(lines, i) ==
  /\ lines[i].k = "ts"
  /\ \A j \in 1..(i - 1) :
       lines[j].k = "ts" => \E m \in (j + 1)..(i - 1) : lines[m].k = "blank"

\* the lines after header i up to the first blank line or the end of input
FollowingText(lines, i) ==
  LET end == CHOOSE e \in (i + 1)..(Len(lines) + 1) :
               /\ e = Len(lines) + 1 \/ lines[e].k = "blank"
               /\ \A m \in (i + 1)..(e - 1) : lines[m].k # "blank"
  IN SubSeq(lines, i + 1, end - 1)

\* the headers that give a cue, and the cues in source order
CueHeaders(lines) ==
  {i \in 1..Len(lines) : ReachedHeader(lines, i) /\ FollowingText(lines, i) # <<>>}

ExpectedCues(lines) ==
  LET headers == CueHeaders(lines)
      nth(n) == CHOOSE i \in headers : Cardinality({j \in headers : j < i}) = n - 1
  IN [n \in 1..Cardinality(headers) |->
        [startTime |-> Millis(lines[nth(n)].s),
         endTime |-> Millis(lines[nth(n)].e),
         text |-> FollowingText(lines, nth(n))]]

\* start, end and text of the cues of a track
Timed(track) ==
  [n \in 1..Len(track) |->
     [startTime |-> track[n].startTime, endTime |-> track[n].endTime,
      text |-> track[n].text]]

\* 'WEBVTT', '', '00:00:01.000 --> 00:00:02.000', 'Hello'
HelloDocument ==
  <<TextLine("WEBVTT"), BlankLine, TsLine(Stamp(1, 0), Stamp(2, 0)),
    TextLine("Hello")>>

HelloCue == [startTime |-> 1000, endTime |-> 2000, text |-> <<TextLine("Hello")>>]

TimestampLines(lines) == {i \in 1..Len(lines) : lines[i].k = "ts"}

\* a text block is a run of lines that are neither blank nor cue headers;
\* the set holds the first line of each
TextBlocks(lines) ==
  {i \in 1..Len(lines) :
     lines[i].k = "txt" /\ (i = 1 \/ lines[i - 1].k # "txt")}

HasFormatHeader(lines) == \E i \in 1..Len(lines) : lines[i] = TextLine("WEBVTT")

\* C20: validateVTTContentDetailed reports isValid = false exactly when the
\* document has no cue-header (timestamp) line or no text block, and true
\* otherwise; a missing WEBVTT header adds a warning, is no error, and
\* never makes a document invalid.
C20_ValidIffTimestampsAndText ==
  parserOutput.op = "validateVTTContentDetailed" =>
    LET lines == parserInput.lines
        result == parserOutput.validation
    IN /\ result.isValid = (TimestampLines(lines) # {} /\ TextBlocks(lines) # {})
       /\ (~HasFormatHeader(lines) /\ ~IsBlankText(lines))
            => /\ "Missing WEBVTT header" \in result.warnings
               /\ "Missing WEBVTT header" \notin result.errors
       /\ HasFormatHeader(lines) => "Missing WEBVTT header" \notin result.warnings

\* a document without the header, with a cue header and a text line, is
\* valid and carries the warning
W_C20_ValidWithoutHeader ==
  /\ parserOutput.op = "validateVTTContentDetailed"
  /\ parserInput.lines = <<TsLine(Stamp(1, 0), Stamp(2, 0)), TextLine("Hello")>>
  /\ parserOutput.validation.isValid
  /\ parserOutput.validation.warnings = {"Missing WEBVTT header"}


(***************************************************************************)
(* C21                                                                     *)
(***************************************************************************)
\* the cue starts at 00:00:00.000, ends later and has a non-empty text
StartsAtZero(cue) ==
  cue.startTime = 0 /\ cue.endTime > 0 /\ NonEmptyTrimmed(cue.text)

\* C21: a time value of 0 is a legitimate value, no error signal: a cue that
\* starts at 00:00:00.000, ends later and has a non-empty text is matched by
\* findSubtitleForTime, kept by performCleanup and not reported as invalid
\* by validateSubtitles.
C21_ZeroIsALegitimateTime ==
  \A i \in 1..Len(parserInput.track) :
    LET cue == parserInput.track[i]
    IN StartsAtZero(cue) =>
         /\ (/\ parserOutput.op = "findSubtitleForTime"
             /\ parserInput.time >= 0 /\ parserInput.time <= cue.endTime)
              => parserOutput.match # <<>>
         /\ (parserOutput.op = "findSubtitleForTime" /\ Len(parserInput.track) = 1
             /\ parserInput.time = 0)
              => parserOutput.match = <<cue>>
         /\ parserOutput.op = "performCleanup"
              => \E n \in 1..Len(parserOutput.cues) : parserOutput.cues[n] = cue
         /\ parserOutput.op = "validateSubtitles"
              => \A e \in parserOutput.subtitles.errors : e[1] # i - 1


(***************************************************************************)
(* C22                                                                     *)
(***************************************************************************)
\* C22: however often position notifications arrive, the throttled sampler
\* invokes the tick handler at most once per 100 ms: any two consecutive
\* invocations through it are at least 100 ms apart.
C22_InvocationsAtLeastIntervalApart ==
  throttled.prevRan # 0 => throttled.lastRan - throttled.prevRan >= 100

\* the handler was invoked by a notification, and again by the trailing
\* call exactly 100 ms later
W_C22_TrailingCallAfterInterval ==
  /\ throttled.prevRan # 0
  /\ throttled.lastRan = throttled.prevRan + 100
  /\ throttled.lastFunc = 0


(***************************************************************************)
(* C23                                                                     *)
(***************************************************************************)
\* C23: when the video element has left the page while the loop is Active,
\* the loop reconnects without a new start(): a cleanup pass that finds the
\* loop without an attached sampler (and not paused) and a matching element
\* in the page leaves the sampler attached to that element, also when an
\* earlier pass after the loss found no matching element.  (A pass is
\* determined by the state it starts in, so a pass that does not reconnect
\* is followed by none that does.)
C23_CleanupReconnects ==
  [][(lastCall'.op = "cleanup" /\ domVideo # 0 /\ listeners = {} /\ ~Paused) =>
       /\ videoElement' = domVideo
       /\ <<domVideo, timeUpdateHandler'>> \in listeners']_vars


(***************************************************************************)
(* C24                                                                     *)
(***************************************************************************)
Tracks12 == <<subtitle1Subtitles, subtitle2Subtitles>>

\* the session has returned, stored or not, or thrown
SessionOver(s) == s.pc \in {"returned", "stored", "thrown"}

\* C24: the two fetch sessions of one start() share no mutable state: a turn
\* of one (response, failure, retry, delay) changes nothing of the other's
\* index, retry counter, buffer or result nor the other's track slot; a
\* session's completion writes its own track slot, with the cues of its own
\* buffer, and only that; and however the two interleave, a session ends as
\* it can end when it runs alone.
C24_SessionsShareNoState ==
  [][\A slot \in {1, 2} :
       LET other == 3 - slot
       IN /\ sessions'[slot] # sessions[slot] =>
               /\ sessions'[other] = sessions[other]
               /\ Tracks12'[other] = Tracks12[other]
          /\ (sessions[slot].pc = "returned" /\ sessions'[slot].pc = "stored") =>
               /\ Tracks12'[slot] = parseVTT(sessions[slot].allContent)
               /\ sessions'[slot].allContent = sessions[slot].allContent
          /\ Tracks12'[slot] # Tracks12[slot] => sessions'[slot].pc = "stored"
          /\ SessionOver(sessions'[slot]) =>
               \E t \in SessionOutcomes(slot) :
                 /\ t.allContent = sessions'[slot].allContent
                 /\ (t.pc = "thrown") = (sessions'[slot].pc = "thrown")]_vars

\* the session of track 2 has stored its track while the session of track 1,
\* with one segment in its buffer, waits to retry segment 2 a second time
W_C24_StoredWhileOtherRetries ==
  /\ sessions[2].pc = "stored" /\ subtitle2Subtitles # <<>>
  /\ sessions[1].pc = "delay" /\ sessions[1].index = 2
  /\ sessions[1].retryCount = 2
  /\ subtitle1Subtitles = <<>>


(***************************************************************************)
(* C25                                                                     *)
(***************************************************************************)
\* the track has a cue that is active at the time, within the tolerance
HasActiveCue(track, time) ==
  \E i \in 1..Len(track) :
    /\ track[i].startTime - TOLERANCE <= time
    /\ time <= track[i].endTime + TOLERANCE

\* C25: a tick that emits a change writes timestampStatus 'Success' if at
\* least one of the two tracks has an active cue at the time of the tick and
\* 'Timestamp not matched' if neither has; a tick that emits nothing writes
\* no status.
C25_StatusOfEmittedChange ==
  [][/\ (lastCall'.op = "tick" /\ lastCall'.emitted /\ lastCall' # lastCall) =>
          /\ UNCHANGED <<subtitle1Subtitles, subtitle2Subtitles>>
          /\ lastCall'.status =
               IF \/ HasActiveCue(subtitle1Subtitles, currentTime')
                  \/ HasActiveCue(subtitle2Subtitles, currentTime')
               THEN "Success" ELSE "Timestamp not matched"
     /\ (lastCall'.op = "tick" /\ ~lastCall'.emitted) => lastCall'.status = ""]_vars

\* a change was emitted with 'Success' at a time when only the second track
\* has an active cue
W_C25_SuccessWithOneTrack ==
  /\ lastCall.op = "tick" /\ lastCall.emitted
  /\ lastCall.status = "Success"
  /\ ~HasActiveCue(subtitle1Subtitles, currentTime)
  /\ HasActiveCue(subtitle2Subtitles, currentTime)


(***************************************************************************)
(* C26                                                                     *)
(***************************************************************************)
\* the attempts at which segment i was accepted
AcceptedAt(i) ==
  {j \in 1..Len(fetchLog) : Accepted(fetchLog[j]) /\ fetchLog[j].index = i}

\* segments 1..n as they were accepted, in order, each followed by a newline
RECURSIVE SegmentsInOrder(_)
SegmentsInOrder(n) ==
  IF n = 0 THEN EmptyText
  ELSE StrConcat(SegmentsInOrder(n - 1),
                 WithNewline(fetchLog[CHOOSE j \in AcceptedAt(n) : TRUE].raw.body))

SessionInvariant ==
  /\ fetchSession.index >= 1
  /\ fetchSession.retryCount \in 0..3
  /\ \A i \in 1..(fetchSession.index - 1) : Cardinality(AcceptedAt(i)) = 1
  /\ \A j \in 1..Len(fetchLog) :
       Accepted(fetchLog[j]) => fetchLog[j].index < fetchSession.index
  /\ \A j, k \in 1..Len(fetchLog) : j < k => fetchLog[j].index <= fetchLog[k].index
  /\ fetchSession.allContent = SegmentsInOrder(fetchSession.index - 1)

\* the step is the arrival of a response that passes the validation pass
ValidSegmentStep ==
  /\ Len(fetchLog') = Len(fetchLog) + 1
  /\ Accepted(fetchLog'[Len(fetchLog')])

SessionStep ==
  /\ ValidSegmentStep =>
       /\ fetchSession'.index = fetchSession.index + 1
       /\ fetchSession'.retryCount = 0
  /\ ~ValidSegmentStep =>
       /\ fetchSession'.index = fetchSession.index
       /\ fetchSession'.allContent = fetchSession.allContent

\* C26: in every state of a fetch session the index is at least 1 and the
\* retry counter is between 0 and 3; the index starts at 1, grows by exactly
\* 1 on each valid segment and changes on no other step; the retry counter
\* is 0 after each valid segment; the buffer is the in-order concatenation
\* of segments 1..index-1, each accepted and appended exactly once.
C26_SessionLocalsInvariant ==
  /\ fetchSession.index = 1 /\ fetchSession.retryCount = 0
  /\ []SessionInvariant
  /\ [][SessionStep]_vars

\* segment 2 was accepted after a failed attempt, both segments are in the
\* buffer and segment 3 has failed twice
W_C26_TwoSegmentsAfterRetries ==
  /\ fetchSession.index = 3 /\ fetchSession.retryCount = 2
  /\ \E j \in 1..Len(fetchLog) : Failed(fetchLog[j]) /\ fetchLog[j].index = 2
  /\ fetchSession.allContent # EmptyText


(***************************************************************************)
(* C27                                                                     *)
(***************************************************************************)
\* what handleStartCommand's catch can write as subtitleStatus
ErrorStatuses ==
  {"Subtitle URL cannot be empty", "Failed to fetch subtitle from URL",
   "Failed to parse VTT subtitle", "Video element not found",
   "Failed to fetch subtitle"}

\* handleStartCommand has written its statuses in the step
StartCommandReturned ==
  /\ lastCall' # lastCall
  /\ \/ lastCall'.op = "startCommand"
     \/ lastCall'.op = "start" /\ lastCall'.status # ""

\* handleStopCommand has run in the step
StopCommandReturned == lastCall'.op = "stop" /\ lastCall'.subtitleStatus # ""

StartCommandStatuses ==
  StartCommandReturned =>
    /\ lastCall'.ok <=> (/\ lastCall'.subtitleStatus = "Success"
                         /\ lastCall'.status = "Fetching")
    /\ ~lastCall'.ok =>
         /\ lastCall'.subtitleStatus \in ErrorStatuses
         /\ lastCall'.status = "Failed"
         /\ isActive' = isActive

StopCommandStatuses ==
  StopCommandReturned =>
    /\ lastCall'.subtitleStatus = "Stopped" /\ lastCall'.status = "Stopped"
    /\ ~isActive'
    /\ <<videoElement, timeUpdateHandler>> \notin listeners'

\* C27: handleStartCommand writes subtitleStatus 'Success' and
\* timestampStatus 'Fetching' exactly when start() succeeded, and on a
\* failure an error subtitleStatus and 'Failed', leaving the Active flag as
\* it was; handleStopCommand stops the loop and writes 'Stopped' to both.
C27_CommandStatuses == [][StartCommandStatuses /\ StopCommandStatuses]_vars


(***************************************************************************)
(* C28                                                                     *)
(***************************************************************************)
\* C28: after any sequence of start, stop, pause, resume and cleanup passes
\* at most one timeupdate listener made by the loop is attached to the video
\* element.
C28_AtMostOneSampler ==
  \A el \in Elements : Cardinality(Attached(el)) <= 1


(***************************************************************************)
(* C29                                                                     *)
(***************************************************************************)
\* a start() has returned an error in the step
StartFailed == lastCall'.op = "start" /\ ~lastCall'.ok /\ lastCall' # lastCall

\* stop() would take its catch branch: removeEventListener of a Promise
StopWouldFail == videoElement = PromiseObject /\ timeUpdateHandler # 0

\* C29: a start() that fails leaves the loop as it was: the step in which it
\* fails changes neither the track slots nor the stored element nor the
\* stored handler nor the Active flag, a call that has failed writes no track
\* slot afterwards, and a stop() that follows the failure succeeds.
C29_FailedStartChangesNothing ==
  [][/\ StartFailed =>
          /\ UNCHANGED <<subtitle1Subtitles, subtitle2Subtitles, videoElement,
                         timeUpdateHandler, isActive>>
          /\ ~StopWouldFail'
     /\ (\E k \in 1..Len(calls) : calls[k].status = "failed") =>
          \/ UNCHANGED <<subtitle1Subtitles, subtitle2Subtitles>>
          \/ lastCall'.op = "stop"]_vars


(***************************************************************************)
(* C30                                                                     *)
(***************************************************************************)
\* the valid segments that the remote side holds of the track of a template
ValidSegmentsOf(url) ==
  {r \in HeldResources : r[1] = url.path /\ r[3] = url.ext}

\* C30: a fetch session terminates when the remote side holds finitely many
\* valid segments: with every template the session moves on to another URL
\* after each segment it accepted, so that it accepts no more segments than
\* the remote side holds of that track and then ends.
C30_SessionTerminates ==
  /\ fetchSession.index - 1 <= Cardinality(ValidSegmentsOf(baseUrl))
  /\ fetchSession.index > 1 =>
       SegmentUrl(baseUrl, fetchSession.index) #
         SegmentUrl(baseUrl, fetchSession.index - 1)


(***************************************************************************)
(* C31                                                                     *)
(***************************************************************************)
\* C31: a document that validateVTTContentDetailed accepts yields at least
\* one cue when parseVTT parses it, and the content that fetchAllVTTs builds
\* from accepted segments parses to a track that is not empty.
C31_AcceptedSegmentYieldsCue ==
  /\ (/\ parserOutput.op = "validateVTTContentDetailed"
      /\ parserOutput.validation.isValid) =>
       parseVTT(parserInput.lines) # <<>>
  /\ parserOutput.op = "segments" => parserOutput.joined # <<>>


(***************************************************************************)
(* C32                                                                     *)
(***************************************************************************)
\* the container is shown: not hidden and fully opaque
OverlayShown == ~overlay.hidden /\ overlay.opacity = 1

\* C32: once every callback scheduled by show() and hide() has run, the
\* overlay is shown whenever the pair it was given last holds a text that
\* is not empty.
C32_TextShownWhenTimersDone ==
  (/\ overlay.frames = 0 /\ overlay.timers = 0
   /\ overlay.text # <<"", "">>) => OverlayShown


(***************************************************************************)
(* C33                                                                     *)
(***************************************************************************)
\* C33: after every tick that is processed, the pair that the renderer was
\* given last is the pair resolved at the time of that tick.
C33_RenderedIsResolvedPair ==
  [][(lastCall'.op = "tick" /\ lastCall'.processed) =>
       rendered' = ResolvedPair(currentTime)']_vars


(***************************************************************************)
(* C34                                                                     *)
(***************************************************************************)
\* C34: when a start() is called while an earlier start() is still
\* fetching, a track slot that the later call has written is not written
\* again by the earlier call: it changes only by a stop().
C34_LaterStartKeepsItsTracks ==
  [][\A slot \in {1, 2} :
       (/\ Len(calls) = 2
        /\ calls[2].sess[slot] = "returned"
        /\ calls[1].sess[slot] = "request"
        /\ lastCall'.op # "stop") =>
         Tracks12'[slot] = Tracks12[slot]]_vars


(***************************************************************************)
(* C35                                                                     *)
(***************************************************************************)
\* a start() is between the store of one of its tracks and the return of
\* its other fetch
HalfLoaded(call) ==
  /\ call.status = "loading"
  /\ \E slot \in {1, 2} :
       call.sess[slot] = "returned" /\ call.sess[3 - slot] = "request"

\* C35: no tick is processed while a start() has stored one of its two
\* tracks and still fetches the other.
C35_NoTickOnPartialStore ==
  [][(lastCall'.op = "tick" /\ lastCall'.processed) =>
       \A k \in 1..Len(calls) : ~HalfLoaded(calls[k])]_vars


(***************************************************************************)
(* C36                                                                     *)
(***************************************************************************)
\* C36: a notification that arrived less than the interval after the last
\* processed tick is not lost: when the timer that holds it fires and leaves
\* no timer behind, the handler is invoked at that instant.
C36_TrailingTickProcessed ==
  [][(throttled.lastFunc # 0 /\ throttled'.lastFunc = 0) =>
       throttled'.lastRan = throttled.now]_vars


(***************************************************************************)
(* C37                                                                     *)
(***************************************************************************)
RECURSIVE ClicksApplied(_, _)
\* the storage after the clicks of `log`, each applied whole and in order
ClicksApplied(log, stored) ==
  IF log = <<>> THEN stored
  ELSE LET b == Head(log)
       IN ClicksApplied(Tail(log),
                        [stored EXCEPT ![b[1]] = Clamp(b[1], @ + b[2])])

\* C37: once every adjustSetting call has returned, the stored settings are
\* the initial ones changed by the delta of each click in turn, within the
\* limits: after k clicks on the '+' size button from v the size is
\* min(10, v + k).
C37_EachClickCounts ==
  popup.pending = <<>> => popup.storage = ClicksApplied(popup.log, popup.initial)

====
